---- MODULE Spec2Model ----
(***************************************************************************)
(* Photo-metadata restoration pipeline (src/photos-metadata-restore).      *)
(*                                                                         *)
(*   SpecIngest  : 1_copy_files.py, the content-addressed ingestion with   *)
(*                 its worker pool, lock and result collection.            *)
(*   SpecWriter  : 6_restore_metadata.py and 4_restore_metadata.py, the    *)
(*                 two revisions of the metadata writer, run over records  *)
(*                 whose inputs come from the extractors.                  *)
(*   SpecCompare : the tolerance comparators of 4_restore_metadata.py and  *)
(*                 5_describe_result.py applied to drawn readings.         *)
(*   SpecExtract : 2_filter_missing_metadata.py reading the stored copies  *)
(*                 through utils/exif_utils.py.                            *)
(*   SpecLocate  : 3_find_metadata_file.py searching the sidecar of each   *)
(*                 pair entry.                                             *)
(*   SpecPipeline: the scripts 1_ to 6_ run in order, each reading the     *)
(*                 files its predecessors left in output/.                 *)
(*   SpecClassify: the selection of the input files by their extension in  *)
(*                 1_copy_files.py and main.py.                            *)
(*   SpecReport  : compare_metadata of 5_describe_result.py sorting the    *)
(*                 stored records into the classes of the report.          *)
(*   SpecRoundTrip: write_exif_data of 6_restore_metadata.py followed by   *)
(*                 the readers of utils/exif_utils.py.                     *)
(***************************************************************************)
EXTENDS Integers, Sequences, FiniteSets, TLC

VARIABLES
    \* ---- ingestion (1_copy_files.py) ----
    content,            \* input tree: file -> content class (its bytes)
    ext,                \* input tree: file -> suffix as spelled on disk
    pc,                 \* file -> position of the worker processing it
    lock,               \* threading.Lock: 0 when free, else the holder
    processed_hashes,   \* hash -> entry of the shared dict
    branch,             \* file -> branch its worker took under the lock
    store,              \* output/images: set of [name, content]
    pair_data,          \* list collected by copy_images_with_hash
    duplicate_count,    \* duplicates counted by the collector
    error_count,        \* per-file errors logged by the collector
    next_future,        \* index of the future the collector waits for
    pair_json,          \* output/pair.json: <<"unwritten">> or <<"written", list>>
    \* ---- writer (6_restore_metadata.py, 4_restore_metadata.py) ----
    revision,           \* which writer script is run: "r6" or "r4"
    photo_data,         \* record -> PhotoMetadata read from the stored copy
    sidecar,            \* record -> locator entry and sidecar JSON
    tags,               \* record -> EXIF tags of the stored file
    loc,                \* record -> "main" (images/) or "quarantine" (images/no_datetime/)
    done,               \* records whose task of the current run has finished
    run,                \* number of the writer run in progress
    log,                \* run -> record -> what the task did
    run_status,         \* run -> "pending", "completed" or "raised"
    snapshot,           \* run -> tags and locations when the run ended
    \* ---- comparators (4_restore_metadata.py, 5_describe_result.py) ----
    cmp_input,          \* the two readings handed to the comparators
    cmp_result,         \* comparator -> "pending", "match" or "differ"
    \* ---- extraction (2_filter_missing_metadata.py, utils/exif_utils.py) ----
    metadata_list,      \* PhotoMetadata records appended by process_all_files
    extract_status,     \* "running", "raised" or "written" (metadata.json)
    file_lists,         \* category -> list of the files process_all_files put in it
    filter_results,     \* None, or <<the total and the counts print_summary reports>>
    \* ---- sidecar locator (3_find_metadata_file.py) ----
    pairs,              \* output/pair.json as the locator loads it
    listing,            \* pair index -> what exists around the pair's source
    metadata_locations, \* dict built by main: stored filename -> record
    searched,           \* source paths handed to find_metadata_files_for_image
    locate_errors,      \* pair indexes whose iteration ended in the except branch
    locate_pos,         \* index of the pair the loop is at
    locate_status,      \* "running" or "written" (metadata_location.json)
    \* ---- the scripts run one after the other over one output directory ----
    pipe_input,         \* pair index -> sources and surroundings in the input tree
    output_files,       \* output/: file name -> the script that wrote it, its content
    stage,              \* index of the next script to run
    outcome,            \* script -> "pending", "completed", "returned" or "raised"
    lost,               \* script -> pair indexes whose record the script dropped
    \* ---- classification by extension (1_copy_files.py, main.py) ----
    suffix,             \* input tree: file -> suffix as spelled on disk
    all_extensions,     \* set built by get_all_extensions
    scan_pos,           \* file the loop of get_all_extensions is at
    reported,           \* None, or <<the unknown extensions main has logged>>
    image_files,        \* list built by copy_images_with_hash
    collect_pos,        \* file the loop of copy_images_with_hash is at
    organizer,          \* main.py: None, or <<media_files, unknown_extensions>>
    max_workers,        \* None, or <<the pool size copy_images_with_hash computed>>
    ingest_result,      \* None, <<"raised", error>> or <<"written", the counts of the run>>
    \* ---- the report (5_describe_result.py, compare_metadata) ----
    photo_metadata,     \* stored file -> PhotoMetadata of the stored copy
    supplemental_metadata, \* stored file -> None, or <<PhotoMetadata of the sidecar>>
    hash_to_pair,       \* stored file -> None, or <<the entry of pair.json>>
    categories,         \* category key -> list of the files appended to it
    report_pos,         \* file the loop of compare_metadata is at
    report_status,      \* "running", "returned" or "raised"
    table,              \* None, or <<the counts of the classification table of main>>
    \* ---- a value written by the writer and read back by the extractor ----
    to_write,           \* the datetime and position handed to write_exif_data
    file_tags,          \* the tags of the file
    reread_datetime,    \* <<"unread">>, or <<"read", result of get_exif_datetime>>
    reread_gps          \* <<"unread">>, or <<"read", result of get_gps_data>>

ingestVars == <<content, ext, pc, lock, processed_hashes, branch, store,
                pair_data, duplicate_count, error_count, next_future, pair_json>>
writerVars == <<revision, photo_data, sidecar, tags, loc, done, run, log,
                run_status, snapshot>>
compareVars == <<cmp_input, cmp_result>>
extractVars == <<metadata_list, extract_status, file_lists, filter_results>>
locateVars == <<pairs, listing, metadata_locations, searched, locate_errors,
                locate_pos, locate_status>>
pipeVars   == <<pipe_input, output_files, stage, outcome, lost>>
classifyVars == <<suffix, all_extensions, scan_pos, reported, image_files,
                  collect_pos, organizer, max_workers, ingest_result>>
reportVars == <<photo_metadata, supplemental_metadata, hash_to_pair, categories,
                report_pos, report_status, table>>
roundVars  == <<to_write, file_tags, reread_datetime, reread_gps>>
vars       == <<ingestVars, writerVars, compareVars, extractVars, locateVars, pipeVars,
                classifyVars, reportVars, roundVars>>

None == <<>>

(***************************************************************************)
(* Bounds of the model.                                                    *)
(***************************************************************************)
NumFiles == 3

Files == 1 .. NumFiles
Contents == 1 .. NumFiles
Exts == {".jpg", ".PNG"}

(***************************************************************************)
(* Ingestion: 1_copy_files.py                                              *)
(***************************************************************************)

\* hashlib.md5 over the whole file: one digest per content class (MD5 is
\* taken to be collision-free on the contents of the input tree).
calculate_file_hash(c) == <<"md5", c>>

Hashes == {calculate_file_hash(c) : c \in Contents}

\* source_path.suffix.lower()
SuffixLower(e) == IF e = ".PNG" THEN ".png" ELSE e

\* f"{file_hash}{source_path.suffix.lower()}"
NewFilename(f) == <<calculate_file_hash(content[f]), SuffixLower(ext[f])>>

NoEntry == [present |-> FALSE, sources |-> <<>>, destination |-> None, filename |-> None]

\* The input trees, up to renaming of content classes: file 1 has class 1 and
\* each later file has an earlier file's class or the next unused one.
RECURSIVE MaxClass(_, _)
MaxClass(cs, n) == IF n = 0 THEN 0
                   ELSE LET m == MaxClass(cs, n - 1) IN IF cs[n] > m THEN cs[n] ELSE m

InputTrees == {cs \in [Files -> Contents] :
                 \A f \in Files : cs[f] <= MaxClass(cs, f - 1) + 1}

\* `with lock:` entered by the worker of file f.
AcquireLockNoExclusion(f) == lock' = f

AcquireLock(f) == lock = 0 /\ lock' = f

\* leaving a `with lock:` block
ReleaseLock == lock' = 0

\* Line 59: the hash of the file is computed.
HashFile(f) ==
    /\ pc[f] = "start"
    /\ pc' = [pc EXCEPT ![f] = "lock1"]
    /\ UNCHANGED <<content, ext, lock, processed_hashes, branch, store, pair_data,
                   duplicate_count, error_count, next_future, pair_json>>
    /\ UNCHANGED <<writerVars, compareVars, extractVars, locateVars, pipeVars, classifyVars, reportVars, roundVars>>

\* Line 59: calculate_file_hash raises (unreadable file); the future holds it.
HashFail(f) ==
    /\ pc[f] = "start"
    /\ pc' = [pc EXCEPT ![f] = "failed"]
    /\ UNCHANGED <<content, ext, lock, processed_hashes, branch, store, pair_data,
                   duplicate_count, error_count, next_future, pair_json>>
    /\ UNCHANGED <<writerVars, compareVars, extractVars, locateVars, pipeVars, classifyVars, reportVars, roundVars>>

\* Line 62: first `with lock:`.
EnterCheck(f) ==
    /\ pc[f] = "lock1"
    /\ AcquireLock(f)
    /\ pc' = [pc EXCEPT ![f] = "check"]
    /\ UNCHANGED <<content, ext, processed_hashes, branch, store, pair_data,
                   duplicate_count, error_count, next_future, pair_json>>
    /\ UNCHANGED <<writerVars, compareVars, extractVars, locateVars, pipeVars, classifyVars, reportVars, roundVars>>

\* Line 63: `if file_hash in processed_hashes`.
CheckHash(f) ==
    /\ pc[f] = "check"
    /\ LET h == calculate_file_hash(content[f]) IN
         IF processed_hashes[h].present
           THEN /\ branch' = [branch EXCEPT ![f] = "dup"]
                /\ pc' = [pc EXCEPT ![f] = "append"]
           ELSE /\ branch' = [branch EXCEPT ![f] = "new"]
                /\ pc' = [pc EXCEPT ![f] = "insert"]
    /\ UNCHANGED <<content, ext, lock, processed_hashes, store, pair_data,
                   duplicate_count, error_count, next_future, pair_json>>
    /\ UNCHANGED <<writerVars, compareVars, extractVars, locateVars, pipeVars, classifyVars, reportVars, roundVars>>

\* Lines 65-66: the duplicate branch appends the source and returns (None, True).
AppendSource(f) ==
    /\ pc[f] = "append"
    /\ LET h == calculate_file_hash(content[f]) IN
         processed_hashes' = [processed_hashes EXCEPT
                                ![h].sources = Append(@, f)]
    /\ ReleaseLock
    /\ pc' = [pc EXCEPT ![f] = "done_dup"]
    /\ UNCHANGED <<content, ext, branch, store, pair_data,
                   duplicate_count, error_count, next_future, pair_json>>
    /\ UNCHANGED <<writerVars, compareVars, extractVars, locateVars, pipeVars, classifyVars, reportVars, roundVars>>

\* Lines 69-73: the new-hash branch creates the entry.
InsertEntry(f) ==
    /\ pc[f] = "insert"
    /\ LET h == calculate_file_hash(content[f]) IN
         processed_hashes' = [processed_hashes EXCEPT
                                ![h] = [present |-> TRUE, sources |-> <<f>>,
                                        destination |-> None, filename |-> None]]
    /\ ReleaseLock
    /\ pc' = [pc EXCEPT ![f] = "copy"]
    /\ UNCHANGED <<content, ext, branch, store, pair_data,
                   duplicate_count, error_count, next_future, pair_json>>
    /\ UNCHANGED <<writerVars, compareVars, extractVars, locateVars, pipeVars, classifyVars, reportVars, roundVars>>

\* Lines 76-78: shutil.copy2 to output/images/<hash><suffix>.
CopyFile(f) ==
    /\ pc[f] = "copy"
    /\ store' = {s \in store : s.name # NewFilename(f)}
                  \cup {[name |-> NewFilename(f), content |-> content[f]]}
    /\ pc' = [pc EXCEPT ![f] = "lock2"]
    /\ UNCHANGED <<content, ext, lock, processed_hashes, branch, pair_data,
                   duplicate_count, error_count, next_future, pair_json>>
    /\ UNCHANGED <<writerVars, compareVars, extractVars, locateVars, pipeVars, classifyVars, reportVars, roundVars>>

\* Line 78: shutil.copy2 raises; the entry created at lines 69-73 stays.
CopyFail(f) ==
    /\ pc[f] = "copy"
    /\ pc' = [pc EXCEPT ![f] = "failed"]
    /\ UNCHANGED <<content, ext, lock, processed_hashes, branch, store, pair_data,
                   duplicate_count, error_count, next_future, pair_json>>
    /\ UNCHANGED <<writerVars, compareVars, extractVars, locateVars, pipeVars, classifyVars, reportVars, roundVars>>

\* Line 81: second `with lock:`.
EnterUpdate(f) ==
    /\ pc[f] = "lock2"
    /\ AcquireLock(f)
    /\ pc' = [pc EXCEPT ![f] = "update"]
    /\ UNCHANGED <<content, ext, processed_hashes, branch, store, pair_data,
                   duplicate_count, error_count, next_future, pair_json>>
    /\ UNCHANGED <<writerVars, compareVars, extractVars, locateVars, pipeVars, classifyVars, reportVars, roundVars>>

\* Lines 82-92: destination and filename are recorded, pair_info is returned.
UpdateEntry(f) ==
    /\ pc[f] = "update"
    /\ LET h == calculate_file_hash(content[f]) IN
         processed_hashes' = [processed_hashes EXCEPT
                                ![h].destination = NewFilename(f),
                                ![h].filename = NewFilename(f)]
    /\ ReleaseLock
    /\ pc' = [pc EXCEPT ![f] = "done_new"]
    /\ UNCHANGED <<content, ext, branch, store, pair_data,
                   duplicate_count, error_count, next_future, pair_json>>
    /\ UNCHANGED <<writerVars, compareVars, extractVars, locateVars, pipeVars, classifyVars, reportVars, roundVars>>

Terminal(f) == pc[f] \in {"done_new", "done_dup", "failed"}

\* A collector without the try/except of lines 126-143: an exception re-raised
\* by future.result() leaves the loop, so a failed future is never passed.
CollectStopsAtFailure ==
    /\ next_future \in Files
    /\ pc[next_future] \in {"done_new", "done_dup"}
    /\ LET f == next_future IN
         /\ pair_data' = IF pc[f] = "done_new"
                           THEN Append(pair_data,
                                       [hash |-> calculate_file_hash(content[f]),
                                        filename |-> NewFilename(f),
                                        destination |-> NewFilename(f)])
                           ELSE pair_data
         /\ duplicate_count' = IF pc[f] = "done_dup"
                                 THEN duplicate_count + 1 ELSE duplicate_count
         /\ error_count' = error_count
    /\ next_future' = next_future + 1
    /\ UNCHANGED <<content, ext, pc, lock, processed_hashes, branch, store, pair_json>>
    /\ UNCHANGED <<writerVars, compareVars, extractVars, locateVars, pipeVars, classifyVars, reportVars, roundVars>>

\* A collector whose except clause logs nothing: a failed future is passed
\* without a line in the log.
CollectSilentOnFailure ==
    /\ next_future \in Files
    /\ Terminal(next_future)
    /\ LET f == next_future IN
         /\ pair_data' = IF pc[f] = "done_new"
                           THEN Append(pair_data,
                                       [hash |-> calculate_file_hash(content[f]),
                                        filename |-> NewFilename(f),
                                        destination |-> NewFilename(f)])
                           ELSE pair_data
         /\ duplicate_count' = IF pc[f] = "done_dup"
                                 THEN duplicate_count + 1 ELSE duplicate_count
         /\ error_count' = error_count
    /\ next_future' = next_future + 1
    /\ UNCHANGED <<content, ext, pc, lock, processed_hashes, branch, store, pair_json>>
    /\ UNCHANGED <<writerVars, compareVars, extractVars, locateVars, pipeVars, classifyVars, reportVars, roundVars>>

\* Lines 125-143: the collector takes the futures in submission order.
\* pair_info["sources"] is the list object of the shared entry, so a collected
\* entry is kept by its hash and its sources are read when it is serialized.
Collect ==
    /\ next_future \in Files
    /\ Terminal(next_future)
    /\ LET f == next_future IN
         /\ pair_data' = IF pc[f] = "done_new"
                           THEN Append(pair_data,
                                       [hash |-> calculate_file_hash(content[f]),
                                        filename |-> NewFilename(f),
                                        destination |-> NewFilename(f)])
                           ELSE pair_data
         /\ duplicate_count' = IF pc[f] = "done_dup"
                                 THEN duplicate_count + 1 ELSE duplicate_count
         /\ error_count' = IF pc[f] = "failed" THEN error_count + 1 ELSE error_count
    /\ next_future' = next_future + 1
    /\ UNCHANGED <<content, ext, pc, lock, processed_hashes, branch, store, pair_json>>
    /\ UNCHANGED <<writerVars, compareVars, extractVars, locateVars, pipeVars, classifyVars, reportVars, roundVars>>

\* json.dump of pair_data: the sources list of each entry as it is now.
SerializePairs ==
    [i \in 1 .. Len(pair_data) |->
        [sources |-> processed_hashes[pair_data[i].hash].sources,
         destination |-> pair_data[i].destination,
         filename |-> pair_data[i].filename,
         hash |-> pair_data[i].hash]]

\* A main that dumps pair_data without waiting for the executor: whatever
\* has been collected is written while workers may still be running.
WritePairJsonWhileRunning ==
    /\ pair_json = <<"unwritten">>
    /\ pair_json' = <<"written", SerializePairs>>
    /\ UNCHANGED <<content, ext, pc, lock, processed_hashes, branch, store,
                   pair_data, duplicate_count, error_count, next_future>>
    /\ UNCHANGED <<writerVars, compareVars, extractVars, locateVars, pipeVars, classifyVars, reportVars, roundVars>>

\* main, lines 184-187: after the executor has shut down, pair.json is written.
WritePairJson ==
    /\ next_future = NumFiles + 1
    /\ \A f \in Files : Terminal(f)
    /\ pair_json = <<"unwritten">>
    /\ pair_json' = <<"written", SerializePairs>>
    /\ UNCHANGED <<content, ext, pc, lock, processed_hashes, branch, store,
                   pair_data, duplicate_count, error_count, next_future>>
    /\ UNCHANGED <<writerVars, compareVars, extractVars, locateVars, pipeVars, classifyVars, reportVars, roundVars>>

(***************************************************************************)
(* Writer: data, conversions and the inputs of a run                       *)
(***************************************************************************)
NumRecords == 1
MaxRuns == 2

Records == 1 .. NumRecords
Runs == 1 .. MaxRuns

Abs(x) == IF x < 0 THEN 0 - x ELSE x

\* A written timestamp is <<day, hour, minute, second>>, day being the ordinal
\* of its calendar date; a datetime object is a count of seconds.
SecondsPerHour == 60 * 60
SecondsPerDay == 24 * SecondsPerHour

\* datetime.strptime / fromisoformat: fields to datetime object
strptime(f) == f[1] * SecondsPerDay + f[2] * SecondsPerHour + f[3] * 60 + f[4]

\* "%I" in place of "%H": the hour on the twelve-hour clock.
strftime_twelve_hour(t) ==
    LET hour == (t % SecondsPerDay) \div SecondsPerHour
    IN  <<t \div SecondsPerDay, IF hour % 12 = 0 THEN 12 ELSE hour % 12,
          (t % SecondsPerHour) \div 60, t % 60>>

\* datetime.strftime("%Y:%m:%d %H:%M:%S"): datetime object to fields
strftime(t) == <<t \div SecondsPerDay, (t % SecondsPerDay) \div SecondsPerHour,
                 (t % SecondsPerHour) \div 60, t % 60>>

\* Angles are integers in units of 1/36,000,000 degree, so that 0.0001 degree,
\* 0.000001 degree and 0.01 arc-second are whole numbers of units.
UnitsPerDegree == 36 * 1000000
UnitsPerMinute == UnitsPerDegree \div 60
UnitsPerCentisecond == UnitsPerMinute \div 6000

\* int(abs(d)), int((abs(d) - degrees) * 60), and the remaining seconds
\* (kept in units).
_decimal_to_dms(decimal_deg) ==
    LET a == Abs(decimal_deg)
        degrees == a \div UnitsPerDegree
        minutes == (a % UnitsPerDegree) \div UnitsPerMinute
        seconds == a % UnitsPerMinute
    IN  <<degrees, minutes, seconds>>

\* f"{sec:.2f}": seconds rounded to hundredths of an arc-second.
FormatSeconds(seconds) ==
    (seconds + UnitsPerCentisecond \div 2) \div UnitsPerCentisecond

\* The tags with the references fixed to "N" and "E", whatever the sign.
GpsTagsWithoutHemisphere(gps) ==
    LET lat == _decimal_to_dms(gps.latitude)
        lon == _decimal_to_dms(gps.longitude)
    IN  [lat |-> <<lat[1], lat[2], FormatSeconds(lat[3])>>,
         lat_ref |-> "N",
         lon |-> <<lon[1], lon[2], FormatSeconds(lon[3])>>,
         lon_ref |-> "E",
         alt |-> gps.altitude]

\* The four GPS tags (and altitude) that write_exif_data hands to exiftool.
GpsTags(gps) ==
    LET lat == _decimal_to_dms(gps.latitude)
        lon == _decimal_to_dms(gps.longitude)
    IN  [lat |-> <<lat[1], lat[2], FormatSeconds(lat[3])>>,
         lat_ref |-> IF gps.latitude >= 0 THEN "N" ELSE "S",
         lon |-> <<lon[1], lon[2], FormatSeconds(lon[3])>>,
         lon_ref |-> IF gps.longitude >= 0 THEN "E" ELSE "W",
         alt |-> gps.altitude]

\* The three datetime tags written from one string.
DatetimeTags(dt) == strftime(dt)

\* ---- inputs ----
\* Sidecar timestamps "<date> 3:42:35 UTC" and "<date> 20:00:00 UTC" (the second
\* crosses midnight when shifted), and one without the UTC marker.
Formatted(utc, stamp) == [utc |-> utc, stamp |-> stamp]

SidecarTimes ==
    {<<None, None>>,
     <<<<Formatted(TRUE, <<1, 3, 42, 35>>)>>, None>>,
     <<<<Formatted(TRUE, <<1, 20, 0, 0>>)>>, None>>,
     <<<<Formatted(FALSE, <<1, 3, 42, 35>>)>>, None>>,
     <<None, <<Formatted(TRUE, <<1, 20, 0, 0>>)>>>>}

\* Sidecar position 35 deg 40' 12.3585" N, 39 deg 45' 0" E, and the 0.0/0.0
\* position Google writes when it has none.
SidecarLatitude == 35 * UnitsPerDegree + 40 * UnitsPerMinute + 123585
SidecarLongitude == 39 * UnitsPerDegree + 45 * UnitsPerMinute

SidecarGeo == [latitude |-> SidecarLatitude, longitude |-> SidecarLongitude, altitude |-> 12]
ZeroGeo == [latitude |-> 0, longitude |-> 0, altitude |-> 0]

JsonDocs ==
    {[photoTakenTime |-> tp[1], creationTime |-> tp[2], geoData |-> g] :
        tp \in SidecarTimes, g \in {None, <<ZeroGeo>>, <<SidecarGeo>>}}

NoJson == [photoTakenTime |-> None, creationTime |-> None, geoData |-> None]

\* entry: whether the locator's output has an entry for the file at all;
\* found: the entry's "found" flag; json: the sidecar document.
SidecarInputs ==
    {[entry |-> FALSE, found |-> FALSE, json |-> NoJson],
     [entry |-> TRUE, found |-> FALSE, json |-> NoJson]}
    \cup {[entry |-> TRUE, found |-> TRUE, json |-> j] : j \in JsonDocs}

\* Embedded values: a datetime 30 s and one 61 s after the local time of the
\* first sidecar timestamp; a position about 0.00005 degree and one about 0.000103 degree
\* (in latitude) away from the sidecar position.
PhotoDatetimes == {strptime(<<1, 12, 43, 5>>), strptime(<<1, 12, 43, 36>>)}

PhotoPositions ==
    {[latitude |-> SidecarLatitude - 1785, longitude |-> SidecarLongitude, altitude |-> 0],
     [latitude |-> SidecarLatitude + 3715, longitude |-> SidecarLongitude, altitude |-> 0]}

\* PhotoMetadata(exif_datetime, exif_gps) of utils/exif_utils.py
PhotoInputs ==
    {[exif_datetime |-> d, exif_gps |-> g] :
        d \in {None} \cup {<<t>> : t \in PhotoDatetimes},
        g \in {None} \cup {<<p>> : p \in PhotoPositions}}

\* The EXIF tags of a stored copy whose extracted metadata is m.
TagsOf(m) ==
    [dt |-> IF m.exif_datetime = None THEN None ELSE <<DatetimeTags(m.exif_datetime[1])>>,
     gps |-> IF m.exif_gps = None THEN None ELSE <<GpsTags(m.exif_gps[1])>>]

(***************************************************************************)
(* 4_extract_metadata_file.py: the sidecar record handed to the writer     *)
(***************************************************************************)
JstOffsetHours == 9

parse_google_photos_timestamp_no_offset(timestamp_str) ==
    IF timestamp_str.utc THEN <<strptime(timestamp_str.stamp)>> ELSE None

\* "UTC" in the string: strptime of the rest, plus timedelta(hours=9).
parse_google_photos_timestamp(timestamp_str) ==
    IF timestamp_str.utc
      THEN <<strptime(timestamp_str.stamp) + JstOffsetHours * SecondsPerHour>>
      ELSE None

\* photoTakenTime only.
extract_datetime_from_supplemental_metadata(supplemental_data) ==
    IF supplemental_data.photoTakenTime # None
      THEN parse_google_photos_timestamp(supplemental_data.photoTakenTime[1])
      ELSE None

\* geoData, with 0.0/0.0 taken as "no position".
extract_gps_from_supplemental_metadata(supplemental_data) ==
    IF supplemental_data.geoData = None THEN None
    ELSE IF supplemental_data.geoData[1].latitude = 0
              /\ supplemental_data.geoData[1].longitude = 0 THEN None
    ELSE supplemental_data.geoData

process_single_metadata_file(metadata_location_info) ==
    IF metadata_location_info.found
      THEN [exif_datetime |->
                extract_datetime_from_supplemental_metadata(metadata_location_info.json),
            exif_gps |->
                extract_gps_from_supplemental_metadata(metadata_location_info.json)]
      ELSE [exif_datetime |-> None, exif_gps |-> None]

(***************************************************************************)
(* 6_restore_metadata.py                                                   *)
(***************************************************************************)
\* supplemental_dict.get(filename): None when the file has no sidecar record.
supplemental_dict(r) ==
    IF sidecar[r].entry THEN <<process_single_metadata_file(sidecar[r])>> ELSE None

\* The tags of a file after exiftool has applied the given values.
write_exif_data(old, datetime_to_write, gps_to_write) ==
    [dt |-> IF datetime_to_write # None
              THEN <<DatetimeTags(datetime_to_write[1])>> ELSE old.dt,
     gps |-> IF gps_to_write # None THEN <<GpsTags(gps_to_write[1])>> ELSE old.gps]

NoAction == [ran |-> FALSE, raised |-> FALSE, wrote_dt |-> FALSE, wrote_gps |-> FALSE,
             moved |-> FALSE, conflicts |-> {}]

\* What one call of restore_metadata_for_image does to the file of record r:
\* the entry for the log, the file's tags and its location afterwards.
restore_metadata_for_image(r) ==
    LET photo == photo_data[r]
        supplemental_data == supplemental_dict(r)
        Ran == [NoAction EXCEPT !.ran = TRUE]
    IN
    IF photo.exif_datetime # None /\ photo.exif_gps # None
      THEN \* lines 117-119: both present, return
           [entry |-> Ran, tags |-> tags[r], loc |-> loc[r]]
    ELSE IF supplemental_data = None
      THEN \* lines 125 / 128: attribute access on None raises
           [entry |-> [Ran EXCEPT !.raised = TRUE], tags |-> tags[r], loc |-> loc[r]]
    ELSE
      LET datetime_to_restore ==
              IF photo.exif_datetime = None
                THEN supplemental_data[1].exif_datetime ELSE None
          gps_to_restore ==
              IF photo.exif_gps = None THEN supplemental_data[1].exif_gps ELSE None
          writes == datetime_to_restore # None \/ gps_to_restore # None
          \* exiftool changes the file only if it is still at images/<filename>
          written == IF writes /\ loc[r] = "main"
                       THEN write_exif_data(tags[r], datetime_to_restore, gps_to_restore)
                       ELSE tags[r]
          issued == [Ran EXCEPT !.wrote_dt = datetime_to_restore # None,
                                !.wrote_gps = gps_to_restore # None]
      IN
      IF datetime_to_restore # None
        THEN [entry |-> issued, tags |-> written, loc |-> loc[r]]
      ELSE IF loc[r] = "main"
        THEN \* line 136: shutil.move into images/no_datetime
             [entry |-> [issued EXCEPT !.moved = TRUE], tags |-> written,
              loc |-> "quarantine"]
        ELSE \* line 136: the source path no longer exists, shutil.move raises
             [entry |-> [issued EXCEPT !.raised = TRUE], tags |-> written, loc |-> loc[r]]

\* process_single_image run by the pool for record r (process_all_images,
\* lines 174-176); every submitted task runs, in any order.
Restore6(r) ==
    /\ revision = "r6"
    /\ run \in Runs
    /\ r \in Records \ done
    /\ LET res == restore_metadata_for_image(r) IN
         /\ log' = [log EXCEPT ![run][r] = res.entry]
         /\ tags' = [tags EXCEPT ![r] = res.tags]
         /\ loc' = [loc EXCEPT ![r] = res.loc]
    /\ done' = done \cup {r}
    /\ UNCHANGED <<revision, photo_data, sidecar, run, run_status, snapshot>>
    /\ UNCHANGED <<ingestVars, compareVars, extractVars, locateVars, pipeVars, classifyVars, reportVars, roundVars>>

(***************************************************************************)
(* 4_restore_metadata.py                                                   *)
(***************************************************************************)
DatetimeTolerance == 60

GpsTolerance == UnitsPerDegree \div 10000

\* metadata.json of 2_filter_missing_metadata.py: the datetime as an ISO
\* string, the position as a dict; absent keys read as None.
image_metadata(r) ==
    [exif_datetime |-> IF photo_data[r].exif_datetime = None THEN None
                       ELSE <<strftime(photo_data[r].exif_datetime[1])>>,
     gps_data |-> photo_data[r].exif_gps]

\* metadata_location.get(filename, {})
metadata_location_info(r) ==
    IF sidecar[r].entry THEN sidecar[r] ELSE [entry |-> FALSE, found |-> FALSE, json |-> NoJson]

compare_datetime_strict(existing_dt, new_dt) ==
    IF existing_dt = None /\ new_dt = None THEN TRUE
    ELSE IF existing_dt = None \/ new_dt = None THEN FALSE
    ELSE Abs(strptime(existing_dt[1]) - new_dt[1]) < DatetimeTolerance

compare_gps_strict(existing_gps, new_gps) ==
    IF existing_gps = None /\ new_gps = None THEN TRUE
    ELSE IF existing_gps = None \/ new_gps = None THEN FALSE
    ELSE /\ Abs(existing_gps[1].latitude - new_gps[1].latitude) < GpsTolerance
         /\ Abs(existing_gps[1].longitude - new_gps[1].longitude) < GpsTolerance

\* lines 138-155: |existing - new| <= 60 seconds
compare_datetime(existing_dt, new_dt) ==
    IF existing_dt = None /\ new_dt = None THEN TRUE
    ELSE IF existing_dt = None \/ new_dt = None THEN FALSE
    ELSE Abs(strptime(existing_dt[1]) - new_dt[1]) <= DatetimeTolerance

\* lines 158-178: both differences <= 0.0001 degree
compare_gps(existing_gps, new_gps) ==
    IF existing_gps = None /\ new_gps = None THEN TRUE
    ELSE IF existing_gps = None \/ new_gps = None THEN FALSE
    ELSE /\ Abs(existing_gps[1].latitude - new_gps[1].latitude) <= GpsTolerance
         /\ Abs(existing_gps[1].longitude - new_gps[1].longitude) <= GpsTolerance

\* photoTakenTime first, creationTime as the fallback (lines 100-116).
r4_extract_datetime_from_supplemental_metadata(supplemental_data) ==
    IF supplemental_data.photoTakenTime # None
      THEN parse_google_photos_timestamp(supplemental_data.photoTakenTime[1])
    ELSE IF supplemental_data.creationTime # None
      THEN parse_google_photos_timestamp(supplemental_data.creationTime[1])
    ELSE None

\* What one call of restore_metadata_for_image of 4_restore_metadata.py does.
r4_restore_metadata_for_image(r) ==
    LET Ran == [NoAction EXCEPT !.ran = TRUE]
        info == metadata_location_info(r)
        existing_datetime == image_metadata(r).exif_datetime
        existing_gps == image_metadata(r).gps_data
        supplemental_datetime ==
            IF info.found THEN r4_extract_datetime_from_supplemental_metadata(info.json)
            ELSE None
        supplemental_gps ==
            IF info.found THEN extract_gps_from_supplemental_metadata(info.json)
            ELSE None
        datetime_conflict == /\ supplemental_datetime # None
                             /\ existing_datetime # None
                             /\ ~compare_datetime(existing_datetime, supplemental_datetime)
        gps_conflict == /\ supplemental_gps # None
                        /\ existing_gps # None
                        /\ ~compare_gps(existing_gps, supplemental_gps)
        datetime_to_restore == IF datetime_conflict THEN None ELSE supplemental_datetime
        gps_to_restore == IF gps_conflict THEN None ELSE supplemental_gps
        conflicts == (IF datetime_conflict THEN {"datetime"} ELSE {})
                       \cup (IF gps_conflict THEN {"gps"} ELSE {})
    IN
    IF loc[r] # "main"
      THEN \* lines 252-254: the image file does not exist
           [entry |-> Ran, tags |-> tags[r], loc |-> loc[r]]
      ELSE [entry |-> [Ran EXCEPT !.wrote_dt = datetime_to_restore # None,
                                  !.wrote_gps = gps_to_restore # None,
                                  !.conflicts = conflicts],
            tags |-> write_exif_data(tags[r], datetime_to_restore, gps_to_restore),
            loc |-> loc[r]]

\* One iteration of the loop of process_all_images (lines 336-343): the
\* records are taken one after the other.
Restore4(r) ==
    /\ revision = "r4"
    /\ run \in Runs
    /\ r \in Records \ done
    /\ \A q \in Records : q < r => q \in done
    /\ LET res == r4_restore_metadata_for_image(r) IN
         /\ log' = [log EXCEPT ![run][r] = res.entry]
         /\ tags' = [tags EXCEPT ![r] = res.tags]
         /\ loc' = [loc EXCEPT ![r] = res.loc]
    /\ done' = done \cup {r}
    /\ UNCHANGED <<revision, photo_data, sidecar, run, run_status, snapshot>>
    /\ UNCHANGED <<ingestVars, compareVars, extractVars, locateVars, pipeVars, classifyVars, reportVars, roundVars>>

\* The run ends: every future has been waited for (6_, lines 178-181, where
\* future.result() re-raises a task's exception) or the loop is over (4_).
FinishRun ==
    /\ run \in Runs
    /\ done = Records
    /\ run_status' = [run_status EXCEPT ![run] =
                        IF \E r \in Records : log[run][r].raised
                          THEN "raised" ELSE "completed"]
    /\ snapshot' = [snapshot EXCEPT ![run] = [tags |-> tags, loc |-> loc]]
    /\ run' = run + 1
    /\ done' = {}
    /\ UNCHANGED <<revision, photo_data, sidecar, tags, loc, log>>
    /\ UNCHANGED <<ingestVars, compareVars, extractVars, locateVars, pipeVars, classifyVars, reportVars, roundVars>>

WriterStart ==
    /\ tags = [r \in Records |-> TagsOf(photo_data[r])]
    /\ loc = [r \in Records |-> "main"]
    /\ done = {}
    /\ run = 1
    /\ log = [n \in Runs |-> [r \in Records |-> NoAction]]
    /\ run_status = [n \in Runs |-> "pending"]
    /\ snapshot = [n \in Runs |-> [tags |-> tags, loc |-> loc]]

(***************************************************************************)
(* 5_describe_result.py: the comparators of the report                     *)
(***************************************************************************)
ReportGpsTolerance == UnitsPerDegree \div 1000000

\* lines 162-173: both differences < 0.000001 degree
_compare_gps(gps1, gps2) ==
    IF gps1 = None /\ gps2 = None THEN TRUE
    ELSE IF gps1 = None \/ gps2 = None THEN FALSE
    ELSE /\ Abs(gps1[1].latitude - gps2[1].latitude) < ReportGpsTolerance
         /\ Abs(gps1[1].longitude - gps2[1].longitude) < ReportGpsTolerance

\* lines 176-183: dt1 == dt2
_compare_datetime(dt1, dt2) ==
    IF dt1 = None /\ dt2 = None THEN TRUE
    ELSE IF dt1 = None \/ dt2 = None THEN FALSE
    ELSE dt1[1] = dt2[1]

\* ---- the readings the comparators are applied to ----
GpsDeltas == {0 - 3601, 0 - 3600, 0 - 36, 0, 35, 36, 37, 3599, 3600, 3601}

DatetimeDeltas == {0 - 61, 0 - 60, 0 - 1, 0, 1, 59, 60, 61}

BasePosition == [latitude |-> SidecarLatitude, longitude |-> SidecarLongitude, altitude |-> 0]

BaseDatetime == strptime(<<1, 23, 59, 30>>)

Shifted(dlat, dlon) ==
    [latitude |-> BasePosition.latitude + dlat,
     longitude |-> BasePosition.longitude + dlon, altitude |-> 0]

GpsPairs ==
    {<<None, None>>, <<<<BasePosition>>, None>>, <<None, <<BasePosition>>>>}
    \cup {<<<<BasePosition>>, <<Shifted(a, b)>>>> : a \in GpsDeltas, b \in GpsDeltas}

DatetimePairs ==
    {<<None, None>>, <<<<BaseDatetime>>, None>>, <<None, <<BaseDatetime>>>>}
    \cup {<<<<BaseDatetime>>, <<BaseDatetime + d>>>> : d \in DatetimeDeltas}

Comparators == {"compare_gps", "_compare_gps", "compare_datetime", "_compare_datetime"}

Verdict(b) == IF b THEN "match" ELSE "differ"

\* 4_restore_metadata.py, line 294: compare_gps(existing_gps, supplemental_gps)
ApplyCompareGps ==
    /\ cmp_result["compare_gps"] = "pending"
    /\ cmp_result' = [cmp_result EXCEPT !["compare_gps"] =
                        Verdict(compare_gps(cmp_input.existing_gps, cmp_input.new_gps))]
    /\ UNCHANGED <<cmp_input, ingestVars, writerVars, extractVars, locateVars, pipeVars, classifyVars, reportVars, roundVars>>

\* 5_describe_result.py, line 130: _compare_gps(photo gps, supplemental gps)
ApplyReportCompareGps ==
    /\ cmp_result["_compare_gps"] = "pending"
    /\ cmp_result' = [cmp_result EXCEPT !["_compare_gps"] =
                        Verdict(_compare_gps(cmp_input.existing_gps, cmp_input.new_gps))]
    /\ UNCHANGED <<cmp_input, ingestVars, writerVars, extractVars, locateVars, pipeVars, classifyVars, reportVars, roundVars>>

\* 4_restore_metadata.py, line 274: the existing value is the ISO string of
\* metadata.json.
ApplyCompareDatetime ==
    /\ cmp_result["compare_datetime"] = "pending"
    /\ cmp_result' = [cmp_result EXCEPT !["compare_datetime"] =
                        Verdict(compare_datetime(
                                  IF cmp_input.existing_dt = None THEN None
                                  ELSE <<strftime(cmp_input.existing_dt[1])>>,
                                  cmp_input.new_dt))]
    /\ UNCHANGED <<cmp_input, ingestVars, writerVars, extractVars, locateVars, pipeVars, classifyVars, reportVars, roundVars>>

\* 5_describe_result.py, line 131
ApplyReportCompareDatetime ==
    /\ cmp_result["_compare_datetime"] = "pending"
    /\ cmp_result' = [cmp_result EXCEPT !["_compare_datetime"] =
                        Verdict(_compare_datetime(cmp_input.existing_dt, cmp_input.new_dt))]
    /\ UNCHANGED <<cmp_input, ingestVars, writerVars, extractVars, locateVars, pipeVars, classifyVars, reportVars, roundVars>>

(***************************************************************************)
(* Extraction: utils/exif_utils.py and 2_filter_missing_metadata.py        *)
(***************************************************************************)
NumPhotos == 2

Photos == 1 .. NumPhotos

\* A tag value of exiftool's output that is read as a datetime string:
\*   "empty" : ""                          (falsy)
\*   "short" : "2020:01:01"                (a colon, fewer than 19 characters)
\*   "exif"  : "YYYY:MM:DD HH:MM:SS"       (possibly followed by "+09:00")
\*   "iso"   : "YYYY-MM-DDTHH:MM:SS+09:00"
\*   "zero"  : "0000:00:00 00:00:00"       (19 characters, not a date)
DatetimeString(text, stamp) == [text |-> text, stamp |-> stamp]

\* `exif_data[datetime_field]` is truthy
IsTruthy(s) == s.text # "empty"

\* `'T' in datetime_string`
ContainsT(s) == s.text = "iso"

\* `':' in datetime_string and len(datetime_string) >= 19`
ColonAndNineteen(s) == s.text \in {"exif", "zero"}

\* datetime.strptime(datetime_string[:19], EXIF_DATETIME_FORMAT) raises
\* ValueError on a string that is no calendar date.
StrptimeRaises(s) == s.text = "zero"

datetime_fields ==
    <<"EXIF:DateTime", "EXIF:DateTimeOriginal", "EXIF:DateTimeDigitized",
      "EXIF:CreateDate", "EXIF:ModifyDate", "File:FileModifyDate",
      "File:FileAccessDate", "File:FileInodeChangeDate">>

\* The loop of get_exif_datetime from the i-th field on: the value returned
\* (None when the list is exhausted), or the exception of strptime.
RECURSIVE ScanDatetimeFields(_, _, _)
ScanDatetimeFields(fields, exif_data, i) ==
    IF i > Len(fields) THEN [raised |-> FALSE, value |-> None]
    ELSE IF fields[i] \in DOMAIN exif_data /\ IsTruthy(exif_data[fields[i]])
      THEN LET datetime_string == exif_data[fields[i]] IN
           IF ContainsT(datetime_string)
             THEN [raised |-> FALSE, value |-> <<strptime(datetime_string.stamp)>>]
           ELSE IF ColonAndNineteen(datetime_string)
             THEN IF StrptimeRaises(datetime_string)
                    THEN [raised |-> TRUE, value |-> None]
                    ELSE [raised |-> FALSE, value |-> <<strptime(datetime_string.stamp)>>]
           ELSE ScanDatetimeFields(fields, exif_data, i + 1)
    ELSE ScanDatetimeFields(fields, exif_data, i + 1)

get_exif_datetime(exif_data) == ScanDatetimeFields(datetime_fields, exif_data, 1)

\* A coordinate string of exiftool: "35 deg 40' 12.34\"" (degrees, minutes and
\* hundredths of a second) or a plain number (kept in units).
Dms(d, m, cs) == [form |-> "dms", parts |-> <<d, m, cs>>]
Num(v) == [form |-> "num", parts |-> <<v>>]

\* degrees + minutes / 60 + seconds / 3600, negated for S and W.
_parse_gps_coordinate(coord_str, direction) ==
    LET decimal == IF coord_str.form = "dms"
                     THEN coord_str.parts[1] * UnitsPerDegree
                            + coord_str.parts[2] * UnitsPerMinute
                            + coord_str.parts[3] * UnitsPerCentisecond
                     ELSE coord_str.parts[1]
    IN  IF direction \in {"S", "W"} THEN 0 - decimal ELSE decimal

latitude_tags == <<"EXIF:GPSLatitude", "Composite:GPSLatitude">>
latitude_ref_tags == <<"EXIF:GPSLatitudeRef", "Composite:GPSLatitudeRef">>
longitude_tags == <<"EXIF:GPSLongitude", "Composite:GPSLongitude">>
longitude_ref_tags == <<"EXIF:GPSLongitudeRef", "Composite:GPSLongitudeRef">>
altitude_tags == <<"EXIF:GPSAltitude", "Composite:GPSAltitude">>

\* A variant that reads the coordinate tag alone and takes a missing
\* reference as the positive hemisphere.
RECURSIVE FirstCoordinateWithoutRef(_, _, _, _)
FirstCoordinateWithoutRef(coord_tags, ref_tags, exif_data, i) ==
    IF i > Len(coord_tags) THEN None
    ELSE IF coord_tags[i] \in DOMAIN exif_data
      THEN <<_parse_gps_coordinate(exif_data[coord_tags[i]],
                                   IF ref_tags[i] \in DOMAIN exif_data
                                     THEN exif_data[ref_tags[i]] ELSE "N")>>
    ELSE FirstCoordinateWithoutRef(coord_tags, ref_tags, exif_data, i + 1)

\* The first i for which the coordinate tag and its reference tag are both
\* in exif_data gives the coordinate (the zip loops of get_gps_data).
RECURSIVE FirstCoordinate(_, _, _, _)
FirstCoordinate(coord_tags, ref_tags, exif_data, i) ==
    IF i > Len(coord_tags) THEN None
    ELSE IF coord_tags[i] \in DOMAIN exif_data /\ ref_tags[i] \in DOMAIN exif_data
      THEN <<_parse_gps_coordinate(exif_data[coord_tags[i]], exif_data[ref_tags[i]])>>
    ELSE FirstCoordinate(coord_tags, ref_tags, exif_data, i + 1)

\* float() of the altitude string, " m above sea level" removed.
RECURSIVE FirstAltitude(_, _, _)
FirstAltitude(alt_tags, exif_data, i) ==
    IF i > Len(alt_tags) THEN None
    ELSE IF alt_tags[i] \in DOMAIN exif_data THEN <<exif_data[alt_tags[i]].value>>
    ELSE FirstAltitude(alt_tags, exif_data, i + 1)

\* GPSData (altitude optional), or None.
get_gps_data(exif_data) ==
    LET latitude == FirstCoordinate(latitude_tags, latitude_ref_tags, exif_data, 1)
        longitude == FirstCoordinate(longitude_tags, longitude_ref_tags, exif_data, 1)
        altitude == FirstAltitude(altitude_tags, exif_data, 1)
    IN  IF latitude # None /\ longitude # None
          THEN <<[latitude |-> latitude[1], longitude |-> longitude[1],
                  altitude |-> altitude]>>
          ELSE None

\* process_single_file: the PhotoMetadata of one stored file, exif_data being
\* what get_exif_data returned for it (None, or the tag dict).
process_single_file(file_name, exif_data) ==
    [file_name |-> file_name,
     exif_datetime |-> IF exif_data # None
                         THEN get_exif_datetime(exif_data[1]).value ELSE None,
     gps_data |-> IF exif_data # None THEN get_gps_data(exif_data[1]) ELSE None,
     exif_data |-> exif_data]

\* whether process_single_file raises instead of returning
process_single_file_raises(exif_data) ==
    exif_data # None /\ get_exif_datetime(exif_data[1]).raised

\* A chain of tests without its final else: a file with neither value is
\* appended to none of the four lists.
CategoryWithoutElse(metadata) ==
    IF metadata.exif_datetime # None /\ metadata.gps_data # None THEN "datetime_and_gps"
    ELSE IF metadata.exif_datetime # None THEN "datetime_only"
    ELSE IF metadata.gps_data # None THEN "gps_only"
    ELSE "none"

\* The four lists process_all_files sorts the files into.
Category(metadata) ==
    IF metadata.exif_datetime # None /\ metadata.gps_data # None THEN "datetime_and_gps"
    ELSE IF metadata.exif_datetime # None THEN "datetime_only"
    ELSE IF metadata.gps_data # None THEN "gps_only"
    ELSE "without_metadata"

\* ---- inputs ----
Merge(f, g) == [k \in DOMAIN f \cup DOMAIN g |-> IF k \in DOMAIN f THEN f[k] ELSE g[k]]

Tag(name, value) == [k \in {name} |-> value]

NoTags == [k \in {} |-> 0]

\* Datetime tags: each tag that is present carries its own day, so that the
\* tag a result was taken from can be told from the result.
DayOf(field) == CHOOSE i \in 1 .. Len(datetime_fields) : datetime_fields[i] = field

StampOf(field) == <<DayOf(field), 10, 20, 30>>

OptionalTag(field, texts) ==
    {NoTags} \cup {Tag(field, DatetimeString(t, StampOf(field))) : t \in texts}

\* exiftool reports File:FileModifyDate for every file it can read; the tag
\* sets without it are the outputs of a reader that gives the EXIF group only.
DatetimeTagSets ==
    {Merge(a, Merge(b, Merge(c, d))) :
        a \in OptionalTag("EXIF:DateTime", {"exif"}),
        b \in OptionalTag("EXIF:DateTimeOriginal", {"exif", "iso", "empty", "short", "zero"}),
        c \in OptionalTag("EXIF:ModifyDate", {"exif"}),
        d \in {Tag("File:FileModifyDate",
                   DatetimeString("exif", StampOf("File:FileModifyDate")))}}
    \cup OptionalTag("EXIF:DateTimeOriginal", {"empty", "short"})

\* GPS tags: 35 deg 40' 12.34" and 39 deg 45' 0", as strings or as numbers,
\* with or without the reference tags, in the EXIF or the Composite group.
LatitudeTags ==
    {NoTags, Tag("EXIF:GPSLatitude", Dms(35, 40, 1234))}
    \cup {Merge(Tag("EXIF:GPSLatitude", s), Tag("EXIF:GPSLatitudeRef", r)) :
             s \in {Dms(35, 40, 1234), Num(0)}, r \in {"N", "S"}}
    \cup {Merge(Tag("EXIF:GPSLatitude", Dms(35, 40, 1234)),
                Tag("Composite:GPSLatitudeRef", "N")),
          Merge(Tag("Composite:GPSLatitude", Num(0 - 35 * UnitsPerDegree)),
                Tag("Composite:GPSLatitudeRef", "S"))}

LongitudeTags ==
    {NoTags, Tag("Composite:GPSLongitude", Dms(39, 45, 0))}
    \cup {Merge(Tag("Composite:GPSLongitude", Dms(39, 45, 0)),
                Tag("Composite:GPSLongitudeRef", r)) : r \in {"E", "W"}}

AltitudeTags ==
    {Tag("EXIF:GPSAltitude", [text |-> "number", value |-> 12]),
     Tag("Composite:GPSAltitude", [text |-> "m above sea level", value |-> 12])}

GpsTagSets ==
    {Merge(lat, lon) : lat \in LatitudeTags, lon \in LongitudeTags}
    \cup {Merge(Tag("EXIF:GPSLatitude", Dms(35, 40, 1234)),
                Merge(Tag("EXIF:GPSLatitudeRef", "N"),
                      Merge(Tag("Composite:GPSLongitude", Dms(39, 45, 0)),
                            Merge(Tag("Composite:GPSLongitudeRef", "E"), alt)))) :
             alt \in AltitudeTags}
    \cup AltitudeTags

\* What get_exif_data returns for a stored file.
ExifOutputs ==
    {None}
    \cup {<<d>> : d \in DatetimeTagSets}
    \cup {<<Merge(g, Tag("EXIF:DateTimeOriginal",
                         DatetimeString("exif", StampOf("EXIF:DateTimeOriginal"))))>> :
             g \in GpsTagSets}

CategoryNames == {"datetime_and_gps", "datetime_only", "gps_only", "without_metadata"}

\* lines 199-206: metadata.file_path is appended to the list of its category.
AppendToCategory(lists, metadata) ==
    [c \in DOMAIN lists |->
        IF c = Category(metadata) THEN Append(lists[c], metadata.file_name) ELSE lists[c]]

\* _print_summary_to_console and _save_results_to_file: the total and the
\* length of each list.
SummaryOf(lists, total_files) ==
    [total_files |-> total_files,
     counts |-> [c \in DOMAIN lists |-> Len(lists[c])]]

\* ---- process_all_files ----
\* One iteration of the loop: the next file is read and its record appended.
ProcessFile ==
    /\ extract_status = "running"
    /\ Len(metadata_list) < NumPhotos
    /\ \E exif_data \in ExifOutputs :
         /\ ~process_single_file_raises(exif_data)
         /\ LET metadata == process_single_file(Len(metadata_list) + 1, exif_data) IN
              /\ metadata_list' = Append(metadata_list, metadata)
              /\ file_lists' = AppendToCategory(file_lists, metadata)
    /\ UNCHANGED <<extract_status, filter_results>>
    /\ UNCHANGED <<ingestVars, writerVars, compareVars, locateVars, pipeVars, classifyVars, reportVars, roundVars>>

\* One iteration in which get_exif_datetime raises: nothing catches it.
ProcessFileRaises ==
    /\ extract_status = "running"
    /\ Len(metadata_list) < NumPhotos
    /\ \E exif_data \in ExifOutputs : process_single_file_raises(exif_data)
    /\ extract_status' = "raised"
    /\ UNCHANGED <<metadata_list, file_lists, filter_results>>
    /\ UNCHANGED <<ingestVars, writerVars, compareVars, locateVars, pipeVars, classifyVars, reportVars, roundVars>>

\* print_summary: the summary is logged, metadata.json is written from the
\* list and filter_results.txt from the four lists, with total_files being
\* len(all_photo_files).
WriteMetadataJson ==
    /\ extract_status = "running"
    /\ Len(metadata_list) = NumPhotos
    /\ extract_status' = "written"
    /\ filter_results' = <<SummaryOf(file_lists, NumPhotos)>>
    /\ UNCHANGED <<metadata_list, file_lists>>
    /\ UNCHANGED <<ingestVars, writerVars, compareVars, locateVars, pipeVars, classifyVars, reportVars, roundVars>>

(***************************************************************************)
(* Sidecar locator: 3_find_metadata_file.py                                *)
(***************************************************************************)
NumPairs == 2

PairIndexes == 1 .. NumPairs

\* A file name is the sequence of its dot-separated parts: IMG_1.jpg is
\* <<"IMG_1", "jpg">>. A path is a directory and a name.
Path(dir, name) == [dir |-> dir, name |-> name]

\* Path.stem: the name without its last suffix
Stem(name) == IF Len(name) > 1 THEN SubSeq(name, 1, Len(name) - 1) ELSE name

\* source_dir.parent.name
ParentDirName(source_path) == "input"

\* lines 36-58: the names tried in the directory of the source, in this order
metadata_patterns(source_path) ==
    LET filename_without_ext == Stem(source_path.name) IN
    <<filename_without_ext \o <<"json">>,
      filename_without_ext \o <<"metadata", "json">>,
      filename_without_ext \o <<"supplemental-metadata", "json">>,
      filename_without_ext \o <<"metadata">>,
      filename_without_ext \o <<"exif">>,
      filename_without_ext \o <<"jpg", "json">>,
      filename_without_ext \o <<"jpeg", "json">>,
      filename_without_ext \o <<"png", "json">>,
      <<ParentDirName(source_path), "json">>,
      <<ParentDirName(source_path), "metadata", "json">>,
      <<"metadata", "json">>,
      <<"photo-metadata", "json">>,
      <<"image-metadata", "json">>,
      <<"exif-data", "json">>,
      <<"photo-info", "json">>>>

\* lines 74-81: the directories searched afterwards, in this order
metadata_dirs ==
    <<"metadata", "photo-metadata", "image-metadata",
      "../metadata", "../photo-metadata", "../image-metadata">>

\* `filename_without_ext in file.name`: on the names drawn here the stem is in
\* a name exactly when the name begins with the parts of the stem.
StemInName(stem, name) ==
    Len(name) >= Len(stem) /\ SubSeq(name, 1, Len(stem)) = stem

\* lines 62-71: one result per pattern that exists in the source directory
RECURSIVE MatchPatterns(_, _, _)
MatchPatterns(patterns, around, i) ==
    IF i > Len(patterns) THEN <<>>
    ELSE (IF patterns[i] \in around.files
            THEN <<[path |-> Path("source_dir", patterns[i]),
                    filename |-> patterns[i], type |-> "file"]>>
            ELSE <<>>)
         \o MatchPatterns(patterns, around, i + 1)

\* lines 83-94: the files of the metadata directories that carry the stem in
\* their name or end in .json (a directory holds at most one file here).
RECURSIVE MatchDirs(_, _, _)
MatchDirs(stem, around, i) ==
    IF i > Len(metadata_dirs) THEN <<>>
    ELSE (IF \E f \in around.dirs :
                /\ f.dir = metadata_dirs[i]
                /\ (StemInName(stem, f.name) \/ f.name[Len(f.name)] = "json")
            THEN LET f == CHOOSE f \in around.dirs :
                             /\ f.dir = metadata_dirs[i]
                             /\ (StemInName(stem, f.name) \/ f.name[Len(f.name)] = "json")
                 IN  <<[path |-> f, filename |-> f.name, type |-> "directory"]>>
            ELSE <<>>)
         \o MatchDirs(stem, around, i + 1)

\* A search that tries the name of the source, suffix included, before the
\* patterns built on the stem.
find_metadata_files_for_image_by_filename(source_path, around) ==
    MatchPatterns(<<source_path.name \o <<"supplemental-metadata", "json">>>>
                    \o metadata_patterns(source_path), around, 1)
      \o MatchDirs(Stem(source_path.name), around, 1)

find_metadata_files_for_image(source_path, around) ==
    MatchPatterns(metadata_patterns(source_path), around, 1)
      \o MatchDirs(Stem(source_path.name), around, 1)

\* lines 176-196: the record stored under the stored filename
LocationRecord(source_path, metadata_files) ==
    IF metadata_files # <<>>
      THEN [original_source |-> source_path,
            metadata_file |-> <<metadata_files[1].path>>,
            metadata_type |-> <<metadata_files[1].type>>,
            found |-> TRUE, file_exists |-> TRUE,
            all_metadata_files |-> metadata_files]
      ELSE [original_source |-> source_path,
            metadata_file |-> None, metadata_type |-> None,
            found |-> FALSE, file_exists |-> FALSE,
            all_metadata_files |-> <<>>]

\* dict assignment metadata_locations[filename] = record
SetItem(dict, key, value) ==
    [k \in DOMAIN dict \cup {key} |-> IF k = key THEN value ELSE dict[k]]

\* ---- inputs ----
StoredName(i) == <<"md5", i, ".jpg">>

\* The first source of pair i, and a second file of the same content.
SourceA(i) == Path(<<"input", "album", i>>, <<"IMG", "jpg">>)
SourceB(i) == Path(<<"input", "copies", i>>, <<"IMG", "jpg">>)

\* An entry as 1_copy_files.py writes it (lines 85-90) ...
WrittenEntry(i, sources) ==
    [k \in {"sources", "destination", "filename", "hash"} |->
        IF k = "sources" THEN sources
        ELSE IF k = "hash" THEN <<"md5", i>> ELSE StoredName(i)]

\* ... and an entry with the single "source" key that the locator reads.
SingleSourceEntry(i) ==
    [k \in {"source", "destination", "filename", "hash"} |->
        IF k = "source" THEN SourceA(i)
        ELSE IF k = "hash" THEN <<"md5", i>> ELSE StoredName(i)]

\* Files that may lie next to IMG.jpg: the sidecar as Google Takeout names
\* it, the same on the stem, a plain <stem>.json and a generic metadata.json.
TakeoutSidecar == <<"IMG", "jpg", "supplemental-metadata", "json">>

NeighbourFiles ==
    {TakeoutSidecar,
     <<"IMG", "supplemental-metadata", "json">>,
     <<"IMG", "json">>,
     <<"metadata", "json">>}

Surroundings ==
    {[files |-> fs, dirs |-> {}] : fs \in SUBSET NeighbourFiles}
    \cup {[files |-> fs, dirs |-> {Path("../metadata", <<"album", "json">>)}] :
             fs \in {{}, {TakeoutSidecar}}}

PairInputs(i) ==
    {[entry |-> SingleSourceEntry(i), around |-> a] : a \in Surroundings}
    \cup {[entry |-> WrittenEntry(i, <<SourceA(i)>>), around |-> a] :
             a \in {[files |-> {}, dirs |-> {}],
                    [files |-> {TakeoutSidecar}, dirs |-> {}]}}
    \cup {[entry |-> WrittenEntry(i, <<SourceA(i), SourceB(i)>>),
           around |-> [files |-> {TakeoutSidecar}, dirs |-> {}]]}

\* ---- main ----
\* lines 168-198: one iteration of the loop that ends in `bar()`.
LocatePair ==
    /\ locate_status = "running"
    /\ locate_pos \in PairIndexes
    /\ "source" \in DOMAIN pairs[locate_pos]
    /\ LET pair == pairs[locate_pos]
           source_path == pair["source"]
           filename == pair["filename"]
           metadata_files == find_metadata_files_for_image(source_path, listing[locate_pos])
       IN  /\ metadata_locations' =
                 SetItem(metadata_locations, filename,
                         LocationRecord(source_path, metadata_files))
           /\ searched' = searched \cup {source_path}
    /\ locate_pos' = locate_pos + 1
    /\ UNCHANGED <<pairs, listing, locate_errors, locate_status>>
    /\ UNCHANGED <<ingestVars, writerVars, compareVars, extractVars, pipeVars, classifyVars, reportVars, roundVars>>

\* lines 168-170, 200-202: pair["source"] raises KeyError, the except branch
\* logs it and the loop goes on; no record is stored for the pair.
LocatePairError ==
    /\ locate_status = "running"
    /\ locate_pos \in PairIndexes
    /\ "source" \notin DOMAIN pairs[locate_pos]
    /\ locate_errors' = locate_errors \cup {locate_pos}
    /\ locate_pos' = locate_pos + 1
    /\ UNCHANGED <<pairs, listing, metadata_locations, searched, locate_status>>
    /\ UNCHANGED <<ingestVars, writerVars, compareVars, extractVars, pipeVars, classifyVars, reportVars, roundVars>>

\* lines 215-216: metadata_location.json is written from the dict.
WriteMetadataLocation ==
    /\ locate_status = "running"
    /\ locate_pos = NumPairs + 1
    /\ locate_status' = "written"
    /\ UNCHANGED <<pairs, listing, metadata_locations, searched, locate_errors,
                   locate_pos>>
    /\ UNCHANGED <<ingestVars, writerVars, compareVars, extractVars, pipeVars, classifyVars, reportVars, roundVars>>

(***************************************************************************)
(* The scripts run in order over one output directory                      *)
(***************************************************************************)
Scripts ==
    <<"1_copy_files", "2_filter_missing_metadata", "3_find_metadata_file",
      "4_extract_metadata_file", "4_restore_metadata", "5_describe_result",
      "6_restore_metadata">>

ScriptNames == {Scripts[i] : i \in 1 .. Len(Scripts)}

Exists(file) == file \in DOMAIN output_files

\* open(file, "w") ... dump: the file holds the data, written by the script
WriteFile(files, file, script, data) ==
    SetItem(files, file, [by |-> script, data |-> data])

HasKey(item, key) == key \in DOMAIN item

Finish(script, status) ==
    /\ outcome' = [outcome EXCEPT ![script] = status]
    /\ stage' = stage + 1

Turn(script) == stage \in 1 .. Len(Scripts) /\ Scripts[stage] = script

\* 1_copy_files.py main: one pair entry per group of identical files, with
\* the keys of lines 85-90, dumped to output/pair.json (lines 186-187).
RunCopyFiles ==
    /\ Turn("1_copy_files")
    /\ output_files' =
          WriteFile(output_files, "pair.json", "1_copy_files",
                    [i \in PairIndexes |-> WrittenEntry(i, pipe_input[i].sources)])
    /\ Finish("1_copy_files", "completed")
    /\ UNCHANGED <<pipe_input, lost>>
    /\ UNCHANGED <<ingestVars, writerVars, compareVars, extractVars, locateVars, classifyVars, reportVars, roundVars>>

\* 2_filter_missing_metadata.py main: load_pair_mapping (lines 140-159) reads
\* item['destination'] and item['source'] of every entry of pair.json with no
\* handler around it; the files are then read and print_summary writes
\* metadata.json and filter_results.txt.
RunFilterMissingMetadata ==
    /\ Turn("2_filter_missing_metadata")
    /\ LET loaded_pairs == IF Exists("pair.json") THEN output_files["pair.json"].data ELSE <<>>
           key_error == \E i \in 1 .. Len(loaded_pairs) :
                           ~HasKey(loaded_pairs[i], "destination") \/ ~HasKey(loaded_pairs[i], "source")
       IN  IF key_error
             THEN /\ Finish("2_filter_missing_metadata", "raised")
                  /\ lost' = [lost EXCEPT !["2_filter_missing_metadata"] = PairIndexes]
                  /\ UNCHANGED output_files
             ELSE /\ Finish("2_filter_missing_metadata", "completed")
                  /\ output_files' =
                        WriteFile(WriteFile(output_files, "metadata.json",
                                            "2_filter_missing_metadata",
                                            {StoredName(i) : i \in PairIndexes}),
                                  "filter_results.txt", "2_filter_missing_metadata", {})
                  /\ UNCHANGED lost
    /\ UNCHANGED pipe_input
    /\ UNCHANGED <<ingestVars, writerVars, compareVars, extractVars, locateVars, classifyVars, reportVars, roundVars>>

\* The dict main of 3_find_metadata_file.py builds from the pairs it could read.
RECURSIVE LocateAll(_, _)
LocateAll(loaded_pairs, n) ==
    IF n = 0 THEN [k \in {} |-> 0]
    ELSE IF HasKey(loaded_pairs[n], "source") /\ HasKey(loaded_pairs[n], "filename")
      THEN SetItem(LocateAll(loaded_pairs, n - 1), loaded_pairs[n]["filename"],
                   LocationRecord(loaded_pairs[n]["source"],
                                  find_metadata_files_for_image(loaded_pairs[n]["source"],
                                                                pipe_input[n].around)))
    ELSE LocateAll(loaded_pairs, n - 1)

\* 3_find_metadata_file.py main (lines 149-216): returns early without
\* pair.json or with an empty one; otherwise every pair is tried, a pair
\* whose lookup raises is logged and skipped, and metadata_location.json is
\* written.
RunFindMetadataFile ==
    /\ Turn("3_find_metadata_file")
    /\ IF ~Exists("pair.json") \/ output_files["pair.json"].data = <<>>
         THEN /\ Finish("3_find_metadata_file", "returned")
              /\ UNCHANGED <<output_files, lost>>
         ELSE LET loaded_pairs == output_files["pair.json"].data IN
              /\ output_files' =
                    WriteFile(output_files, "metadata_location.json", "3_find_metadata_file",
                              LocateAll(loaded_pairs, Len(loaded_pairs)))
              /\ lost' = [lost EXCEPT !["3_find_metadata_file"] =
                            {i \in 1 .. Len(loaded_pairs) : ~HasKey(loaded_pairs[i], "source")}]
              /\ Finish("3_find_metadata_file", "completed")
    /\ UNCHANGED pipe_input
    /\ UNCHANGED <<ingestVars, writerVars, compareVars, extractVars, locateVars, classifyVars, reportVars, roundVars>>

\* 4_extract_metadata_file.py main (lines 134-161): asserts that
\* output/supplemental_file_location.json exists, reads it and writes
\* supplemental_metadata.pkl with one record per key.
RunExtractMetadataFile ==
    /\ Turn("4_extract_metadata_file")
    /\ IF ~Exists("supplemental_file_location.json")
         THEN /\ Finish("4_extract_metadata_file", "raised")
              /\ lost' = [lost EXCEPT !["4_extract_metadata_file"] = PairIndexes]
              /\ UNCHANGED output_files
         ELSE /\ output_files' =
                    WriteFile(output_files, "supplemental_metadata.pkl",
                              "4_extract_metadata_file",
                              DOMAIN output_files["supplemental_file_location.json"].data)
              /\ Finish("4_extract_metadata_file", "completed")
              /\ UNCHANGED lost
    /\ UNCHANGED pipe_input
    /\ UNCHANGED <<ingestVars, writerVars, compareVars, extractVars, locateVars, classifyVars, reportVars, roundVars>>

\* 4_restore_metadata.py main: load_json_files (lines 40-70) asserts that
\* metadata.json, metadata_location.json and pair.json exist; the images of
\* metadata.json are then processed (SpecWriter).
RunRestoreMetadata4 ==
    /\ Turn("4_restore_metadata")
    /\ IF \E f \in {"metadata.json", "metadata_location.json", "pair.json"} : ~Exists(f)
         THEN /\ Finish("4_restore_metadata", "raised")
              /\ lost' = [lost EXCEPT !["4_restore_metadata"] = PairIndexes]
         ELSE /\ Finish("4_restore_metadata", "completed")
              /\ lost' = [lost EXCEPT !["4_restore_metadata"] =
                            {i \in PairIndexes :
                                StoredName(i) \notin output_files["metadata.json"].data}]
    /\ UNCHANGED <<pipe_input, output_files>>
    /\ UNCHANGED <<ingestVars, writerVars, compareVars, extractVars, locateVars, classifyVars, reportVars, roundVars>>

\* load_metadata of 5_describe_result.py (lines 22-30) and of
\* 6_restore_metadata.py (lines 27-35): both open output/photo_metadata.pkl
\* and output/supplemental_metadata.pkl.
load_metadata_raises ==
    ~Exists("photo_metadata.pkl") \/ ~Exists("supplemental_metadata.pkl")

\* 5_describe_result.py main: load_metadata, then load_pair_data and the
\* report, which reads hash_to_pair[...]['source'] (line 101).
RunDescribeResult ==
    /\ Turn("5_describe_result")
    /\ IF load_metadata_raises \/ ~Exists("pair.json")
         THEN /\ Finish("5_describe_result", "raised")
              /\ lost' = [lost EXCEPT !["5_describe_result"] = PairIndexes]
         ELSE LET loaded_pairs == output_files["pair.json"].data IN
              IF \E i \in 1 .. Len(loaded_pairs) : ~HasKey(loaded_pairs[i], "source")
                THEN /\ Finish("5_describe_result", "raised")
                     /\ lost' = [lost EXCEPT !["5_describe_result"] = PairIndexes]
                ELSE /\ Finish("5_describe_result", "completed")
                     /\ UNCHANGED lost
    /\ UNCHANGED <<pipe_input, output_files>>
    /\ UNCHANGED <<ingestVars, writerVars, compareVars, extractVars, locateVars, classifyVars, reportVars, roundVars>>

\* 6_restore_metadata.py main (lines 192-216): load_metadata, then the
\* images are processed (SpecWriter).
RunRestoreMetadata6 ==
    /\ Turn("6_restore_metadata")
    /\ IF load_metadata_raises
         THEN /\ Finish("6_restore_metadata", "raised")
              /\ lost' = [lost EXCEPT !["6_restore_metadata"] = PairIndexes]
         ELSE /\ Finish("6_restore_metadata", "completed")
              /\ UNCHANGED lost
    /\ UNCHANGED <<pipe_input, output_files>>
    /\ UNCHANGED <<ingestVars, writerVars, compareVars, extractVars, locateVars, classifyVars, reportVars, roundVars>>

\* The input tree of a run: per pair, one source or two of the same content,
\* and what lies around the first.
PipeInputs(i) ==
    {[sources |-> s, around |-> a] :
        s \in {<<SourceA(i)>>, <<SourceA(i), SourceB(i)>>},
        a \in Surroundings}

(***************************************************************************)
(* Classification by extension: 1_copy_files.py main and main.py           *)
(***************************************************************************)
NumTreeFiles == 3

TreeFiles == 1 .. NumTreeFiles

\* Suffixes as spelled on disk; "" is a file without an extension.
Suffixes == {".jpg", ".JPG", ".Jpg", ".mp4", ".txt", ""}

\* str.lower()
Lower(e) == IF e \in {".JPG", ".Jpg"} THEN ".jpg" ELSE e

\* config["file_types"]["image_extensions"] and ["video_extensions"]
get_image_extensions == {".jpg", ".png"}
get_video_extensions == {".mp4", ".mov"}

\* main.py: IMAGE_EXTENSIONS | VIDEO_EXTENSIONS, each extension in lower and
\* in upper case.
media_extensions ==
    {".jpg", ".png", ".JPG", ".PNG", ".mp4", ".mov", ".MP4", ".MOV"}

\* main.py: `file_path.suffix in self.media_extensions`
is_media_file(e) == e \in media_extensions

\* get_all_extensions, one file of the rglob loop: the lower-cased suffix is
\* added unless it is empty.
ScanExtension ==
    /\ scan_pos \in TreeFiles
    /\ all_extensions' = IF Lower(suffix[scan_pos]) # ""
                           THEN all_extensions \cup {Lower(suffix[scan_pos])}
                           ELSE all_extensions
    /\ scan_pos' = scan_pos + 1
    /\ UNCHANGED <<suffix, reported, image_files, collect_pos, organizer, max_workers, ingest_result>>
    /\ UNCHANGED <<ingestVars, writerVars, compareVars, extractVars, locateVars, pipeVars, reportVars, roundVars>>

\* main, lines 172-181: the extensions outside image | video are logged.
ReportUnknown ==
    /\ scan_pos = NumTreeFiles + 1
    /\ reported = None
    /\ reported' = <<all_extensions \ (get_image_extensions \cup get_video_extensions)>>
    /\ UNCHANGED <<suffix, all_extensions, scan_pos, image_files, collect_pos, organizer, max_workers, ingest_result>>
    /\ UNCHANGED <<ingestVars, writerVars, compareVars, extractVars, locateVars, pipeVars, reportVars, roundVars>>

\* copy_images_with_hash, lines 105-108, one file of the rglob loop: a file
\* becomes a candidate when its lower-cased suffix is an image extension.
CollectImageFile ==
    /\ reported # None
    /\ collect_pos \in TreeFiles
    /\ image_files' = IF Lower(suffix[collect_pos]) \in get_image_extensions
                        THEN Append(image_files, collect_pos) ELSE image_files
    /\ collect_pos' = collect_pos + 1
    /\ UNCHANGED <<suffix, all_extensions, scan_pos, reported, organizer, max_workers,
                   ingest_result>>
    /\ UNCHANGED <<ingestVars, writerVars, compareVars, extractVars, locateVars, pipeVars, reportVars, roundVars>>

\* main.py move_media_files, lines 105-111: the media files and the unknown
\* extensions of the same tree.
MoveMediaFiles ==
    /\ organizer = None
    /\ organizer' =
          <<{f \in TreeFiles : is_media_file(suffix[f])},
            {Lower(suffix[f]) : f \in {g \in TreeFiles : ~is_media_file(suffix[g])
                                                          /\ suffix[g] # ""}}>>
    /\ UNCHANGED <<suffix, all_extensions, scan_pos, reported, image_files, collect_pos, max_workers,
                   ingest_result>>
    /\ UNCHANGED <<ingestVars, writerVars, compareVars, extractVars, locateVars, pipeVars, reportVars, roundVars>>

\* os.cpu_count()
CpuCounts == {1, 2}

Min(a, b) == IF a <= b THEN a ELSE b

\* line 113: max_workers = min(len(image_files), os.cpu_count() * 2)
PoolSize(n, cpu_count) == Min(n, cpu_count * 2)

\* copy_images_with_hash, lines 110-117: the pool size is computed and the
\* ThreadPoolExecutor is constructed; its constructor raises ValueError when
\* max_workers <= 0, and neither copy_images_with_hash nor main catches it,
\* so line 186 is not reached and pair.json is not written.
StartExecutor ==
    /\ collect_pos = NumTreeFiles + 1
    /\ max_workers = None
    /\ \E cpu_count \in CpuCounts :
         LET n == PoolSize(Len(image_files), cpu_count) IN
           /\ max_workers' = <<n>>
           /\ ingest_result' = IF n <= 0 THEN <<"raised", "ValueError">> ELSE None
    /\ UNCHANGED <<suffix, all_extensions, scan_pos, reported, image_files, collect_pos,
                   organizer>>
    /\ UNCHANGED <<ingestVars, writerVars, compareVars, extractVars, locateVars, pipeVars, reportVars, roundVars>>

\* lines 119-145 and main, lines 184-187: the futures are submitted and
\* collected and pair.json is written. Each candidate ends as an entry, as a
\* duplicate or as a logged error (the workers themselves are the subject of
\* the ingestion specification); with no future the loop body never runs.
RunExecutor ==
    /\ max_workers # None
    /\ ingest_result = None
    /\ \E entries \in 0 .. Len(image_files) :
         \E duplicates \in 0 .. (Len(image_files) - entries) :
            ingest_result' = <<"written", [entries |-> entries,
                                           duplicate_count |-> duplicates]>>
    /\ UNCHANGED <<suffix, all_extensions, scan_pos, reported, image_files, collect_pos,
                   organizer, max_workers>>
    /\ UNCHANGED <<ingestVars, writerVars, compareVars, extractVars, locateVars, pipeVars, reportVars, roundVars>>

(***************************************************************************)
(* 5_describe_result.py: compare_metadata                                  *)
(***************************************************************************)
NumStored == 2

StoredFiles == 1 .. NumStored

\* The keys of `categories` (lines 72-84), field by field:
\*   both_match        "..._両方一致"          file_only  "..._ファイルのみ"
\*   supplemental_only "..._supplementalのみ"  both_none  "..._両方なし"
GpsCategories == {"gps_both_match", "gps_file_only", "gps_supplemental_only",
                  "gps_both_none"}

DatetimeCategories == {"datetime_both_match", "datetime_file_only",
                       "datetime_supplemental_only", "datetime_both_none"}

EmptyCategories == [c \in GpsCategories \cup DatetimeCategories |-> <<>>]

\* lines 118-157: the keys whose list file_info is appended to.
CategoriesOf(photo, supplemental_data) ==
    LET photo_has_gps == photo.exif_gps # None
        photo_has_datetime == photo.exif_datetime # None
    IN
    IF supplemental_data = None
      THEN (IF photo_has_gps THEN {"gps_file_only"} ELSE {})
             \cup (IF photo_has_datetime THEN {"datetime_file_only"} ELSE {})
      ELSE
        LET supp_has_gps == supplemental_data[1].exif_gps # None
            supp_has_datetime == supplemental_data[1].exif_datetime # None
            gps_match == _compare_gps(photo.exif_gps, supplemental_data[1].exif_gps)
            datetime_match == _compare_datetime(photo.exif_datetime,
                                                supplemental_data[1].exif_datetime)
            gps_key ==
                IF photo_has_gps /\ supp_has_gps
                  THEN (IF gps_match THEN "gps_both_match" ELSE "gps_both_none")
                ELSE IF photo_has_gps THEN "gps_file_only"
                ELSE IF supp_has_gps THEN "gps_supplemental_only"
                ELSE "gps_both_none"
            datetime_key ==
                IF photo_has_datetime /\ supp_has_datetime
                  THEN (IF datetime_match THEN "datetime_both_match"
                        ELSE "datetime_both_none")
                ELSE IF photo_has_datetime THEN "datetime_file_only"
                ELSE IF supp_has_datetime THEN "datetime_supplemental_only"
                ELSE "datetime_both_none"
        IN  {gps_key, datetime_key}

\* lines 98-101: hash_to_pair[hash_value]['source'] is read when the hash is
\* a key of hash_to_pair; an entry without that key raises KeyError.
OriginalFilenameRaises(f) ==
    hash_to_pair[f] # None /\ ~HasKey(hash_to_pair[f][1], "source")

\* One iteration of the loop over photo_dict (lines 89-157).
CompareRecord ==
    /\ report_status = "running"
    /\ report_pos \in StoredFiles
    /\ ~OriginalFilenameRaises(report_pos)
    /\ LET keys == CategoriesOf(photo_metadata[report_pos],
                                supplemental_metadata[report_pos])
       IN  categories' = [c \in DOMAIN categories |->
                            IF c \in keys THEN Append(categories[c], report_pos)
                            ELSE categories[c]]
    /\ report_pos' = report_pos + 1
    /\ UNCHANGED <<photo_metadata, supplemental_metadata, hash_to_pair, report_status, table>>
    /\ UNCHANGED <<ingestVars, writerVars, compareVars, extractVars, locateVars, pipeVars, classifyVars, roundVars>>

\* The iteration ends in the KeyError of line 101, which nothing catches.
CompareRecordRaises ==
    /\ report_status = "running"
    /\ report_pos \in StoredFiles
    /\ OriginalFilenameRaises(report_pos)
    /\ report_status' = "raised"
    /\ UNCHANGED <<photo_metadata, supplemental_metadata, hash_to_pair, categories, report_pos, table>>
    /\ UNCHANGED <<ingestVars, writerVars, compareVars, extractVars, locateVars, pipeVars, classifyVars, roundVars>>

\* line 159: return categories, total_files, image_video_files
ReturnCategories ==
    /\ report_status = "running"
    /\ report_pos = NumStored + 1
    /\ report_status' = "returned"
    /\ UNCHANGED <<photo_metadata, supplemental_metadata, hash_to_pair, categories, report_pos, table>>
    /\ UNCHANGED <<ingestVars, writerVars, compareVars, extractVars, locateVars, pipeVars, classifyVars, roundVars>>

\* main, lines 286-330: the column of the classification table a record is
\* counted in, for one field; supplemental_data is None when the file has no
\* entry in supplemental_dict.
TableColumn(photo_value, supplemental_data, supplemental_value, match) ==
    LET photo_has == photo_value # None
        supp_has == IF supplemental_data # None THEN supplemental_value # None ELSE FALSE
    IN  IF photo_has /\ supp_has THEN (IF match THEN "both_match" ELSE "both_none")
        ELSE IF photo_has THEN "media_only"
        ELSE IF supp_has THEN "supplemental_only"
        ELSE "both_none"

TableColumns == {"both_match", "media_only", "supplemental_only", "both_none"}

GpsColumn(f) ==
    LET supplemental_data == supplemental_metadata[f]
        supplemental_value == IF supplemental_data # None
                                THEN supplemental_data[1].exif_gps ELSE None
    IN  TableColumn(photo_metadata[f].exif_gps, supplemental_data, supplemental_value,
                    _compare_gps(photo_metadata[f].exif_gps, supplemental_value))

DatetimeColumn(f) ==
    LET supplemental_data == supplemental_metadata[f]
        supplemental_value == IF supplemental_data # None
                                THEN supplemental_data[1].exif_datetime ELSE None
    IN  TableColumn(photo_metadata[f].exif_datetime, supplemental_data, supplemental_value,
                    _compare_datetime(photo_metadata[f].exif_datetime, supplemental_value))

\* main, lines 273-337: the two rows of the "2x4 Classification Table" and
\* the total are counted and printed.
PrintClassificationTable ==
    /\ table = None
    /\ table' = <<[gps |-> [c \in TableColumns |->
                              Cardinality({f \in StoredFiles : GpsColumn(f) = c})],
                   datetime |-> [c \in TableColumns |->
                              Cardinality({f \in StoredFiles : DatetimeColumn(f) = c})],
                   total_files |-> NumStored]>>
    /\ UNCHANGED <<photo_metadata, supplemental_metadata, hash_to_pair, categories,
                   report_pos, report_status>>
    /\ UNCHANGED <<ingestVars, writerVars, compareVars, extractVars, locateVars, pipeVars, classifyVars, roundVars>>

\* ---- inputs ----
\* photo_metadata.pkl: the values embedded in the stored copy.
ReportPhotoInputs ==
    {[exif_datetime |-> d, exif_gps |-> g] :
        d \in {None, <<BaseDatetime>>}, g \in {None, <<BasePosition>>}}

\* supplemental_metadata.pkl: no entry for the file, or the sidecar's values,
\* equal to the embedded ones or one second / 0.000001 degree away.
ReportSupplementalInputs ==
    {None} \cup
    {<<[exif_datetime |-> d, exif_gps |-> g]>> :
        d \in {None, <<BaseDatetime>>, <<BaseDatetime + 1>>},
        g \in {None, <<BasePosition>>, <<Shifted(36, 0)>>}}

\* pair.json by hash: no entry, an entry as 1_copy_files.py writes it, an
\* entry with a "source" key.
ReportPairInputs(f) ==
    {None, <<WrittenEntry(f, <<SourceA(f)>>)>>, <<SingleSourceEntry(f)>>}

(***************************************************************************)
(* 6_restore_metadata.py write_exif_data, read back by utils/exif_utils.py *)
(***************************************************************************)
\* exiftool's output for a file that holds the tags write_exif_data handed
\* it: the one datetime string under its three tags (lines 62-67), the
\* coordinates as "<deg>deg <min>' <sec>\"" with their references (lines
\* 78-84) and the altitude (lines 88-92).
ExifDataOf(held) ==
    LET datetime_str == DatetimeString("exif", held.dt[1])
        datetime_tags ==
            IF held.dt = None THEN NoTags
            ELSE Merge(Tag("EXIF:DateTime", datetime_str),
                 Merge(Tag("EXIF:DateTimeOriginal", datetime_str),
                       Tag("EXIF:DateTimeDigitized", datetime_str)))
        g == held.gps[1]
        gps_tags ==
            IF held.gps = None THEN NoTags
            ELSE Merge(Tag("EXIF:GPSLatitude", Dms(g.lat[1], g.lat[2], g.lat[3])),
                 Merge(Tag("EXIF:GPSLatitudeRef", g.lat_ref),
                 Merge(Tag("EXIF:GPSLongitude", Dms(g.lon[1], g.lon[2], g.lon[3])),
                 Merge(Tag("EXIF:GPSLongitudeRef", g.lon_ref),
                       Tag("EXIF:GPSAltitude", [text |-> "number", value |-> g.alt])))))
    IN  Merge(datetime_tags, gps_tags)

NoFileTags == [dt |-> None, gps |-> None]

\* restore_metadata_for_image, line 132: write_exif_data on a file without
\* the tags it is given.
WriteExifData ==
    /\ file_tags = NoFileTags
    /\ file_tags' = write_exif_data(file_tags, to_write.exif_datetime, to_write.exif_gps)
    /\ UNCHANGED <<to_write, reread_datetime, reread_gps>>
    /\ UNCHANGED <<ingestVars, writerVars, compareVars, extractVars, locateVars, pipeVars, classifyVars, reportVars>>

\* 2_filter_missing_metadata.py, line 120: get_exif_datetime on the written file.
ReadExifDatetime ==
    /\ file_tags # NoFileTags
    /\ reread_datetime = <<"unread">>
    /\ reread_datetime' = <<"read", get_exif_datetime(ExifDataOf(file_tags))>>
    /\ UNCHANGED <<to_write, file_tags, reread_gps>>
    /\ UNCHANGED <<ingestVars, writerVars, compareVars, extractVars, locateVars, pipeVars, classifyVars, reportVars>>

\* 2_filter_missing_metadata.py, line 128: get_gps_data on the written file.
ReadGpsData ==
    /\ file_tags # NoFileTags
    /\ reread_gps = <<"unread">>
    /\ reread_gps' = <<"read", get_gps_data(ExifDataOf(file_tags))>>
    /\ UNCHANGED <<to_write, file_tags, reread_datetime>>
    /\ UNCHANGED <<ingestVars, writerVars, compareVars, extractVars, locateVars, pipeVars, classifyVars, reportVars>>

\* ---- inputs ----
\* Timestamps to the second: midnight, morning, noon, the last second of a
\* day, and times of later days.
RestoredDatetimes ==
    {strptime(<<1, 0, 0, 0>>), strptime(<<1, 3, 42, 35>>), strptime(<<1, 12, 0, 0>>),
     strptime(<<1, 23, 59, 59>>), strptime(<<2, 5, 0, 0>>), strptime(<<365, 20, 0, 1>>)}

\* Coordinates, in both hemispheres: zero, 0.000001 degree, values that round
\* to 0.00" and to 0.01", one that rounds up to 60.00", whole degrees and the
\* sidecar position.
Magnitudes ==
    {36, 1, 49, 50, 51, UnitsPerDegree, 59 * UnitsPerMinute + 599960, SidecarLatitude}

RestoredCoordinates == {0} \cup Magnitudes \cup {0 - m : m \in Magnitudes}

RestoredPositions ==
    {[latitude |-> lat, longitude |-> lon, altitude |-> 12] :
        lat \in RestoredCoordinates,
        lon \in {SidecarLongitude, 0 - SidecarLongitude, 0 - 36}}

\* The values restore_metadata_for_image hands to write_exif_data: at least
\* one of the two is not None (line 131).
RestoredValues ==
    {[exif_datetime |-> d, exif_gps |-> g] :
        d \in {None} \cup {<<t>> : t \in RestoredDatetimes},
        g \in {None} \cup {<<p>> : p \in RestoredPositions}}
    \ {[exif_datetime |-> None, exif_gps |-> None]}

(***************************************************************************)
(* Specifications                                                          *)
(***************************************************************************)
\* The parts of the state a specification does not use stay at these values.
IngestIdle ==
    /\ content = <<>> /\ ext = <<>> /\ pc = <<>> /\ lock = 0
    /\ processed_hashes = <<>> /\ branch = <<>> /\ store = {}
    /\ pair_data = <<>> /\ duplicate_count = 0 /\ error_count = 0
    /\ next_future = 0 /\ pair_json = <<"unwritten">>

WriterIdle ==
    /\ revision = "none" /\ photo_data = <<>> /\ sidecar = <<>> /\ tags = <<>>
    /\ loc = <<>> /\ done = {} /\ run = 0 /\ log = <<>> /\ run_status = <<>>
    /\ snapshot = <<>>

CompareIdle ==
    /\ cmp_input = <<>> /\ cmp_result = <<>>

ExtractIdle ==
    /\ metadata_list = <<>> /\ extract_status = "none"
    /\ file_lists = <<>> /\ filter_results = <<>>

PipeIdle ==
    /\ pipe_input = <<>> /\ output_files = <<>> /\ stage = 0 /\ outcome = <<>>
    /\ lost = <<>>

ClassifyIdle ==
    /\ suffix = <<>> /\ all_extensions = {} /\ scan_pos = 0 /\ reported = <<>>
    /\ image_files = <<>> /\ collect_pos = 0 /\ organizer = <<>>
    /\ max_workers = <<>> /\ ingest_result = <<>>

ReportIdle ==
    /\ photo_metadata = <<>> /\ supplemental_metadata = <<>>
    /\ hash_to_pair = <<>> /\ categories = <<>> /\ report_pos = 0
    /\ report_status = "none" /\ table = <<>>

RoundIdle ==
    /\ to_write = <<>> /\ file_tags = <<>> /\ reread_datetime = <<>>
    /\ reread_gps = <<>>

LocateIdle ==
    /\ pairs = <<>> /\ listing = <<>> /\ metadata_locations = <<>> /\ searched = {}
    /\ locate_errors = {} /\ locate_pos = 0 /\ locate_status = "none"

IngestInit ==
    /\ content \in InputTrees
    /\ ext \in [Files -> Exts]
    /\ pc = [f \in Files |-> "start"]
    /\ lock = 0
    /\ processed_hashes = [h \in Hashes |-> NoEntry]
    /\ branch = [f \in Files |-> "none"]
    /\ store = {}
    /\ pair_data = <<>>
    /\ duplicate_count = 0
    /\ error_count = 0
    /\ next_future = 1
    /\ pair_json = <<"unwritten">>
    /\ WriterIdle
    /\ CompareIdle
    /\ ExtractIdle
    /\ LocateIdle
    /\ PipeIdle
    /\ ClassifyIdle
    /\ ReportIdle
    /\ RoundIdle

IngestNext ==
    \/ \E f \in Files : HashFile(f)
    \/ \E f \in Files : HashFail(f)
    \/ \E f \in Files : EnterCheck(f)
    \/ \E f \in Files : CheckHash(f)
    \/ \E f \in Files : AppendSource(f)
    \/ \E f \in Files : InsertEntry(f)
    \/ \E f \in Files : CopyFile(f)
    \/ \E f \in Files : CopyFail(f)
    \/ \E f \in Files : EnterUpdate(f)
    \/ \E f \in Files : UpdateEntry(f)
    \/ Collect
    \/ WritePairJson

SpecIngest == IngestInit /\ [][IngestNext]_vars

WriterInit ==
    /\ revision \in {"r6", "r4"}
    /\ photo_data \in [Records -> PhotoInputs]
    /\ sidecar \in [Records -> SidecarInputs]
    /\ WriterStart
    /\ IngestIdle
    /\ CompareIdle
    /\ ExtractIdle
    /\ LocateIdle
    /\ PipeIdle
    /\ ClassifyIdle
    /\ ReportIdle
    /\ RoundIdle

WriterNext ==
    \/ \E r \in Records : Restore6(r)
    \/ \E r \in Records : Restore4(r)
    \/ FinishRun

SpecWriter == WriterInit /\ [][WriterNext]_vars

CompareInit ==
    /\ \E g \in GpsPairs, d \in DatetimePairs :
          cmp_input = [existing_gps |-> g[1], new_gps |-> g[2],
                       existing_dt |-> d[1], new_dt |-> d[2]]
    /\ cmp_result = [c \in Comparators |-> "pending"]
    /\ IngestIdle
    /\ WriterIdle
    /\ ExtractIdle
    /\ LocateIdle
    /\ PipeIdle
    /\ ClassifyIdle
    /\ ReportIdle
    /\ RoundIdle

CompareNext ==
    \/ ApplyCompareGps
    \/ ApplyReportCompareGps
    \/ ApplyCompareDatetime
    \/ ApplyReportCompareDatetime

SpecCompare == CompareInit /\ [][CompareNext]_vars

ExtractInit ==
    /\ metadata_list = <<>>
    /\ extract_status = "running"
    /\ file_lists = [c \in CategoryNames |-> <<>>]
    /\ filter_results = None
    /\ IngestIdle
    /\ WriterIdle
    /\ CompareIdle
    /\ LocateIdle
    /\ PipeIdle
    /\ ClassifyIdle
    /\ ReportIdle
    /\ RoundIdle

ExtractNext ==
    \/ ProcessFile
    \/ ProcessFileRaises
    \/ WriteMetadataJson

SpecExtract == ExtractInit /\ [][ExtractNext]_vars

LocateInit ==
    /\ \E inputs \in [PairIndexes -> UNION {PairInputs(i) : i \in PairIndexes}] :
          /\ \A i \in PairIndexes : inputs[i] \in PairInputs(i)
          /\ pairs = [i \in PairIndexes |-> inputs[i].entry]
          /\ listing = [i \in PairIndexes |-> inputs[i].around]
    /\ metadata_locations = [k \in {} |-> 0]
    /\ searched = {}
    /\ locate_errors = {}
    /\ locate_pos = 1
    /\ locate_status = "running"
    /\ IngestIdle
    /\ WriterIdle
    /\ CompareIdle
    /\ ExtractIdle
    /\ PipeIdle
    /\ ClassifyIdle
    /\ ReportIdle
    /\ RoundIdle

LocateNext ==
    \/ LocatePair
    \/ LocatePairError
    \/ WriteMetadataLocation

SpecLocate == LocateInit /\ [][LocateNext]_vars

PipelineInit ==
    /\ \E inputs \in [PairIndexes -> UNION {PipeInputs(i) : i \in PairIndexes}] :
          /\ \A i \in PairIndexes : inputs[i] \in PipeInputs(i)
          /\ pipe_input = inputs
    /\ output_files = [k \in {} |-> 0]
    /\ stage = 1
    /\ outcome = [s \in ScriptNames |-> "pending"]
    /\ lost = [s \in ScriptNames |-> {}]
    /\ IngestIdle
    /\ WriterIdle
    /\ CompareIdle
    /\ ExtractIdle
    /\ LocateIdle
    /\ ClassifyIdle
    /\ ReportIdle
    /\ RoundIdle

PipelineNext ==
    \/ RunCopyFiles
    \/ RunFilterMissingMetadata
    \/ RunFindMetadataFile
    \/ RunExtractMetadataFile
    \/ RunRestoreMetadata4
    \/ RunDescribeResult
    \/ RunRestoreMetadata6

SpecPipeline == PipelineInit /\ [][PipelineNext]_vars

ClassifyInit ==
    /\ suffix \in [TreeFiles -> Suffixes]
    /\ all_extensions = {}
    /\ scan_pos = 1
    /\ reported = None
    /\ image_files = <<>>
    /\ collect_pos = 1
    /\ organizer = None
    /\ max_workers = None
    /\ ingest_result = None
    /\ IngestIdle
    /\ WriterIdle
    /\ CompareIdle
    /\ ExtractIdle
    /\ LocateIdle
    /\ PipeIdle
    /\ ReportIdle
    /\ RoundIdle

ClassifyNext ==
    \/ ScanExtension
    \/ ReportUnknown
    \/ CollectImageFile
    \/ MoveMediaFiles
    \/ StartExecutor
    \/ RunExecutor

SpecClassify == ClassifyInit /\ [][ClassifyNext]_vars

ReportInit ==
    /\ photo_metadata \in [StoredFiles -> ReportPhotoInputs]
    /\ supplemental_metadata \in [StoredFiles -> ReportSupplementalInputs]
    /\ hash_to_pair \in {h \in [StoredFiles -> UNION {ReportPairInputs(f) : f \in StoredFiles}] :
                           \A f \in StoredFiles : h[f] \in ReportPairInputs(f)}
    /\ categories = EmptyCategories
    /\ report_pos = 1
    /\ report_status = "running"
    /\ table = None
    /\ IngestIdle
    /\ WriterIdle
    /\ CompareIdle
    /\ ExtractIdle
    /\ LocateIdle
    /\ PipeIdle
    /\ ClassifyIdle
    /\ RoundIdle

ReportNext ==
    \/ CompareRecord
    \/ CompareRecordRaises
    \/ ReturnCategories
    \/ PrintClassificationTable

SpecReport == ReportInit /\ [][ReportNext]_vars

RoundTripInit ==
    /\ to_write \in RestoredValues
    /\ file_tags = NoFileTags
    /\ reread_datetime = <<"unread">>
    /\ reread_gps = <<"unread">>
    /\ IngestIdle
    /\ WriterIdle
    /\ CompareIdle
    /\ ExtractIdle
    /\ LocateIdle
    /\ PipeIdle
    /\ ClassifyIdle
    /\ ReportIdle

RoundTripNext ==
    \/ WriteExifData
    \/ ReadExifDatetime
    \/ ReadGpsData

SpecRoundTrip == RoundTripInit /\ [][RoundTripNext]_vars

(***************************************************************************)
(* Ingestion claims                                                        *)
(***************************************************************************)
Written == pair_json[1] = "written"

PairEntriesFor(h) == {i \in 1 .. Len(pair_json[2]) : pair_json[2][i].hash = h}

SourcesOf(i) == {pair_json[2][i].sources[k] : k \in 1 .. Len(pair_json[2][i].sources)}

StoredCopiesOf(c) == {s \in store : s.content = c}

\* C1: once pair.json is written, every candidate file whose own processing did
\* not raise has exactly one stored copy of its content in the store and exactly
\* one pair entry for its hash, and that entry lists every file of the same
\* content whose processing did not raise.
C1_OneCopyAndAllSources ==
    Written =>
      \A f \in Files : pc[f] # "failed" =>
        /\ Cardinality(StoredCopiesOf(content[f])) = 1
        /\ Cardinality(PairEntriesFor(calculate_file_hash(content[f]))) = 1
        /\ \A i \in PairEntriesFor(calculate_file_hash(content[f])) :
             \A g \in Files :
               (content[g] = content[f] /\ pc[g] # "failed") => g \in SourcesOf(i)

PastCheck(f) == branch[f] # "none"

\* C2: under every interleaving at most one worker per content hash takes the
\* new-hash branch and at most one copy is made for it; every other worker of
\* that hash that got past the check took the duplicate branch, never reaches the
\* copy, and once it has returned its source is in the entry's sources list.
C2_OneNewBranchPerHash ==
    /\ \A f, g \in Files :
         (f # g /\ content[f] = content[g]) => ~(branch[f] = "new" /\ branch[g] = "new")
    /\ \A c \in Contents :
         Cardinality({f \in Files : content[f] = c
                         /\ pc[f] \in {"lock2", "update", "done_new"}}) <= 1
    /\ \A f \in Files :
         (PastCheck(f) /\ \E g \in Files : g # f /\ content[g] = content[f]
                                              /\ branch[g] = "new")
           => /\ branch[f] = "dup"
              /\ pc[f] \in {"append", "done_dup"}
              /\ pc[f] = "done_dup" =>
                   \E k \in 1 .. Len(processed_hashes[calculate_file_hash(content[f])].sources) :
                      processed_hashes[calculate_file_hash(content[f])].sources[k] = f

\* C2 witness: a duplicate-branch worker has returned while the worker that
\* claimed the same hash is still copying.
C2_Witness ==
    \E f, g \in Files :
       /\ f # g /\ content[f] = content[g]
       /\ branch[f] = "new" /\ pc[f] = "copy"
       /\ branch[g] = "dup" /\ pc[g] = "done_dup"

(***************************************************************************)
(* Writer claims                                                           *)
(***************************************************************************)
\* A UTC timestamp nine hours later, by the clock: the date advances when the
\* hour passes midnight.
ShiftNineHours(stamp) ==
    IF stamp[2] + 9 >= 24 THEN <<stamp[1] + 1, stamp[2] + 9 - 24, stamp[3], stamp[4]>>
    ELSE <<stamp[1], stamp[2] + 9, stamp[3], stamp[4]>>

HasSidecarTakenTimeUtc(r) ==
    /\ sidecar[r].entry
    /\ sidecar[r].found
    /\ sidecar[r].json.photoTakenTime # None
    /\ sidecar[r].json.photoTakenTime[1].utc

HasSidecarPosition(r) ==
    /\ sidecar[r].entry
    /\ sidecar[r].found
    /\ sidecar[r].json.geoData # None
    /\ sidecar[r].json.geoData[1] # ZeroGeo

RanInFirstRun(r) == log[1][r].ran

DuringFirstRun == run_status[1] = "pending"

\* C3: a record with no embedded datetime whose sidecar supplies no datetime
\* is, once 6_restore_metadata.py has processed it, in the quarantine directory
\* and no longer at images/<filename>.
C3_NoDatetimeIsQuarantined ==
    \A r \in Records :
       (/\ revision = "r6"
        /\ RanInFirstRun(r)
        /\ photo_data[r].exif_datetime = None
        /\ ~HasSidecarTakenTimeUtc(r))
         => loc[r] = "quarantine"

\* C4: a record with no embedded datetime whose sidecar has a photoTakenTime T
\* marked UTC has, once the writer has processed it, the EXIF datetime T plus
\* nine hours, and its file is still in the main store.
C4_SidecarTimeWrittenShifted ==
    \A r \in Records :
       (/\ RanInFirstRun(r)
        /\ photo_data[r].exif_datetime = None
        /\ HasSidecarTakenTimeUtc(r))
         => /\ tags[r].dt = <<ShiftNineHours(sidecar[r].json.photoTakenTime[1].stamp)>>
            /\ loc[r] = "main"

\* C4 witness: 6_restore_metadata.py has filled the datetime of a file from a
\* sidecar time of 20:00:00 UTC, which is 05:00:00 of the next day.
C4_Witness ==
    \E r \in Records :
       /\ revision = "r6"
       /\ RanInFirstRun(r)
       /\ photo_data[r].exif_datetime = None
       /\ HasSidecarTakenTimeUtc(r)
       /\ sidecar[r].json.photoTakenTime[1].stamp = <<1, 20, 0, 0>>
       /\ tags[r].dt = <<<<2, 5, 0, 0>>>>
       /\ loc[r] = "main"

\* C5: a record whose stored copy has an embedded datetime is never moved out
\* of the main store by the writer.
C5_EmbeddedDatetimeStaysInMainStore ==
    \A r \in Records :
       photo_data[r].exif_datetime # None => loc[r] = "main"

\* C6: for each of the two fields, if the stored file already has the field
\* then the writer issues no write of it and the file's value is the one it had.
C6_OnlyFillsGaps ==
    \A r \in Records :
       (RanInFirstRun(r) /\ DuringFirstRun) =>
         /\ photo_data[r].exif_datetime # None =>
              /\ ~log[1][r].wrote_dt
              /\ tags[r].dt = TagsOf(photo_data[r]).dt
         /\ photo_data[r].exif_gps # None =>
              /\ ~log[1][r].wrote_gps
              /\ tags[r].gps = TagsOf(photo_data[r]).gps

\* C7: when 6_restore_metadata.py is run a second time over the same metadata
\* after a first run that completed, the second run completes, issues no EXIF
\* write and no move for any file, and leaves every file's tags and location
\* as the first run left them.
C7_SecondRunIsNoOp ==
    (/\ revision = "r6"
     /\ run_status[1] = "completed"
     /\ run_status[2] # "pending")
      => /\ run_status[2] = "completed"
         /\ \A r \in Records :
              /\ ~log[2][r].wrote_dt
              /\ ~log[2][r].wrote_gps
              /\ ~log[2][r].moved
              /\ snapshot[2].tags[r] = snapshot[1].tags[r]
              /\ snapshot[2].loc[r] = snapshot[1].loc[r]

DatetimeConflict(r) ==
    /\ photo_data[r].exif_datetime # None
    /\ HasSidecarTakenTimeUtc(r)
    /\ Abs(photo_data[r].exif_datetime[1]
             - strptime(ShiftNineHours(sidecar[r].json.photoTakenTime[1].stamp))) > 60

GpsConflict(r) ==
    /\ photo_data[r].exif_gps # None
    /\ HasSidecarPosition(r)
    /\ \/ Abs(photo_data[r].exif_gps[1].latitude
                - sidecar[r].json.geoData[1].latitude) > UnitsPerDegree \div 10000
       \/ Abs(photo_data[r].exif_gps[1].longitude
                - sidecar[r].json.geoData[1].longitude) > UnitsPerDegree \div 10000

\* C8: a record whose embedded and sidecar values of a field are both present
\* and differ by more than the tolerance (60 s, 0.0001 degree) is flagged as
\* conflicting by the writer and no EXIF write of any field is issued for it.
C8_ConflictFlaggedAndNotWritten ==
    \A r \in Records :
       (RanInFirstRun(r) /\ (DatetimeConflict(r) \/ GpsConflict(r)))
         => /\ log[1][r].conflicts # {}
            /\ ~log[1][r].wrote_dt
            /\ ~log[1][r].wrote_gps

(***************************************************************************)
(* Comparator claims                                                       *)
(***************************************************************************)
BothPositions == cmp_input.existing_gps # None /\ cmp_input.new_gps # None

LatDiff == Abs(cmp_input.existing_gps[1].latitude - cmp_input.new_gps[1].latitude)

LonDiff == Abs(cmp_input.existing_gps[1].longitude - cmp_input.new_gps[1].longitude)

BothDatetimes == cmp_input.existing_dt # None /\ cmp_input.new_dt # None

SecondsApart == Abs(cmp_input.existing_dt[1] - cmp_input.new_dt[1])

Applied(c) == cmp_result[c] # "pending"

Failed == {f \in Files : pc[f] = "failed"}

\* C11: a file whose hashing or copying raised does not abort the batch: the
\* lock is only ever held by a worker that is about to release it, the
\* collector passes every finished future (a failed one included), pair.json
\* is written once all futures are collected, and when it is written every
\* candidate file has been processed to its end, each failure has been logged
\* once and every other file has been collected as a copy or as a duplicate.
C11_FailureDoesNotAbort ==
    /\ lock # 0 => pc[lock] \in {"check", "append", "insert", "update"}
    /\ (next_future \in Files /\ Terminal(next_future)) => ENABLED Collect
    /\ (next_future = NumFiles + 1 /\ ~Written) => ENABLED WritePairJson
    /\ Written =>
         /\ \A f \in Files : Terminal(f)
         /\ error_count = Cardinality(Failed)
         /\ Len(pair_data) + duplicate_count = NumFiles - Cardinality(Failed)

\* C11 witness: pair.json is written after the first submitted file failed,
\* and it holds the entry of a later file that was copied into the store.
C11_Witness ==
    /\ Written
    /\ pc[1] = "failed"
    /\ error_count = 1
    /\ \E f \in Files :
         /\ pc[f] = "done_new"
         /\ [name |-> NewFilename(f), content |-> content[f]] \in store
         /\ PairEntriesFor(calculate_file_hash(content[f])) # {}

(***************************************************************************)
(* Extraction claims                                                       *)
(***************************************************************************)
Extracted == {metadata_list[i] : i \in 1 .. Len(metadata_list)}

WithExifData == {m \in Extracted : m.exif_data # None}

\* C12: when get_exif_data yields None for a file, the extraction run stops
\* with an error: no metadata record is produced for that file and no later
\* file is processed.
C12_NoExifDataStopsTheRun ==
    \A m \in Extracted : m.exif_data # None

HasWellFormed(exif_data, field) ==
    /\ field \in DOMAIN exif_data
    /\ exif_data[field].text \in {"exif", "iso"}

\* C13: for every tag set that contains a DateTimeOriginal value, the datetime
\* extracted is the DateTimeOriginal value, whatever other datetime tags the
\* set contains.
C13_DateTimeOriginalWins ==
    \A m \in WithExifData :
       HasWellFormed(m.exif_data[1], "EXIF:DateTimeOriginal")
         => m.exif_datetime
              = <<strptime(m.exif_data[1]["EXIF:DateTimeOriginal"].stamp)>>

AnyTag(exif_data, coord_tags) ==
    \E i \in 1 .. Len(coord_tags) : coord_tags[i] \in DOMAIN exif_data

TagWithRef(exif_data, coord_tags, ref_tags, i) ==
    coord_tags[i] \in DOMAIN exif_data /\ ref_tags[i] \in DOMAIN exif_data

AnyTagWithRef(exif_data, coord_tags, ref_tags) ==
    \E i \in 1 .. Len(coord_tags) : TagWithRef(exif_data, coord_tags, ref_tags, i)

\* the group (EXIF before Composite) whose coordinate is taken
GroupRead(exif_data, coord_tags, ref_tags) ==
    CHOOSE i \in 1 .. Len(coord_tags) :
       /\ TagWithRef(exif_data, coord_tags, ref_tags, i)
       /\ \A j \in 1 .. i - 1 : ~TagWithRef(exif_data, coord_tags, ref_tags, j)

PositiveMagnitude(coord_str) ==
    /\ \A k \in 1 .. Len(coord_str.parts) : coord_str.parts[k] >= 0
    /\ \E k \in 1 .. Len(coord_str.parts) : coord_str.parts[k] > 0

\* The sign rule for one coordinate: a tag value of positive magnitude comes
\* out negative exactly when the reference read with it is S or W.
SignFollowsRef(exif_data, coord_tags, ref_tags, coordinate) ==
    LET i == GroupRead(exif_data, coord_tags, ref_tags) IN
    PositiveMagnitude(exif_data[coord_tags[i]])
      => (coordinate < 0 <=> exif_data[ref_tags[i]] \in {"S", "W"})

\* C14 (as the code has it): get_gps_data emits a GPS value exactly when, for
\* the latitude and for the longitude, a coordinate tag is present together
\* with the reference tag of its own group (EXIF or Composite); a missing
\* altitude tag never prevents emission and leaves the altitude null; and an
\* emitted coordinate read from a value of positive magnitude is negative
\* exactly when the reference read with it is S or W.
C14_EmitsIffTagsWithRefs ==
    \A m \in WithExifData :
       LET ed == m.exif_data[1] IN
       /\ m.gps_data # None
            <=> (/\ AnyTagWithRef(ed, latitude_tags, latitude_ref_tags)
                 /\ AnyTagWithRef(ed, longitude_tags, longitude_ref_tags))
       /\ m.gps_data # None =>
            /\ ~AnyTag(ed, altitude_tags) => m.gps_data[1].altitude = None
            /\ SignFollowsRef(ed, latitude_tags, latitude_ref_tags,
                              m.gps_data[1].latitude)
            /\ SignFollowsRef(ed, longitude_tags, longitude_ref_tags,
                              m.gps_data[1].longitude)

\* C14 witness: 35 deg 40' 12.34" S, 39 deg 45' 0" E with no altitude tag has
\* been read as a negative latitude, a positive longitude and a null altitude,
\* and a file with both coordinate tags but no reference tags as no position.
C14_Witness ==
    /\ \E m \in WithExifData :
          /\ TagWithRef(m.exif_data[1], latitude_tags, latitude_ref_tags, 1)
          /\ m.exif_data[1]["EXIF:GPSLatitude"] = Dms(35, 40, 1234)
          /\ m.exif_data[1]["EXIF:GPSLatitudeRef"] = "S"
          /\ m.gps_data # None
          /\ m.gps_data[1].latitude
               = 0 - (35 * UnitsPerDegree + 40 * UnitsPerMinute + 1234 * UnitsPerCentisecond)
          /\ m.gps_data[1].longitude = 39 * UnitsPerDegree + 45 * UnitsPerMinute
          /\ m.gps_data[1].altitude = None
    /\ \E m \in WithExifData :
          /\ AnyTag(m.exif_data[1], latitude_tags)
          /\ AnyTag(m.exif_data[1], longitude_tags)
          /\ ~AnyTagWithRef(m.exif_data[1], latitude_tags, latitude_ref_tags)
          /\ m.gps_data = None

\* C14 (as the specification has it): a GPS value is emitted exactly when a
\* latitude tag and a longitude tag are present, a missing altitude leaves the
\* altitude null, and each emitted coordinate is negative exactly when its
\* reference is S or W.
C14_EmitsIffBothTagsPresent ==
    \A m \in WithExifData :
       LET ed == m.exif_data[1] IN
       /\ m.gps_data # None
            <=> (AnyTag(ed, latitude_tags) /\ AnyTag(ed, longitude_tags))
       /\ m.gps_data # None =>
            /\ ~AnyTag(ed, altitude_tags) => m.gps_data[1].altitude = None
            /\ m.gps_data[1].latitude < 0
                 <=> ed[latitude_ref_tags[GroupRead(ed, latitude_tags, latitude_ref_tags)]]
                       \in {"S", "W"}
            /\ m.gps_data[1].longitude < 0
                 <=> ed[longitude_ref_tags[GroupRead(ed, longitude_tags, longitude_ref_tags)]]
                       \in {"S", "W"}


(***************************************************************************)
(* Extraction: the four categories                                         *)
(***************************************************************************)
ListsHolding(f) ==
    {c \in CategoryNames : \E k \in 1 .. Len(file_lists[c]) : file_lists[c][k] = f}

Scanned == {metadata_list[i].file_name : i \in 1 .. Len(metadata_list)}

SumOfCounts(counts) ==
    counts["datetime_and_gps"] + counts["datetime_only"] + counts["gps_only"]
      + counts["without_metadata"]

\* C27: every file process_all_files has scanned is in exactly one of the
\* four lists, once; no other file is in a list; and the four counts that
\* print_summary reports add up to the total file count it reports.
C27_CategoriesPartitionTheFiles ==
    /\ \A f \in Scanned : Cardinality(ListsHolding(f)) = 1
    /\ \A c \in CategoryNames :
         \A k \in 1 .. Len(file_lists[c]) :
            /\ file_lists[c][k] \in Scanned
            /\ \A j \in 1 .. Len(file_lists[c]) : file_lists[c][j] = file_lists[c][k] => j = k
    /\ filter_results # None =>
         SumOfCounts(filter_results[1].counts) = filter_results[1].total_files

\* C27 witness: the summary is reported after one file with a datetime only
\* and one file with neither value were scanned.
C27_Witness ==
    /\ filter_results # None
    /\ filter_results[1].total_files = NumPhotos
    /\ filter_results[1].counts["datetime_only"] >= 1
    /\ filter_results[1].counts["without_metadata"] >= 1

(***************************************************************************)
(* Locator claims                                                          *)
(***************************************************************************)
\* the pairs whose iteration is over
Located == {i \in PairIndexes : i < locate_pos}

\* the pairs for which the search ran
Searched == {i \in Located : i \notin locate_errors}

AsWrittenByIngestion(i) == "sources" \in DOMAIN pairs[i]

\* <filename>.supplemental-metadata.json, the filename with its media suffix
FilenameSidecar(source_path) == source_path.name \o <<"supplemental-metadata", "json">>

\* C15: whenever <filename>.supplemental-metadata.json exists next to the
\* source, the locator reports found=true and the metadata_file it records is
\* a file of the source's directory named after the source file.
C15_FilenameSidecarIsSelected ==
    \A i \in Searched :
       FilenameSidecar(pairs[i]["source"]) \in listing[i].files
         => LET record == metadata_locations[pairs[i]["filename"]] IN
            /\ record.found
            /\ record.metadata_type = <<"file">>
            /\ StemInName(Stem(pairs[i]["source"].name), record.metadata_file[1].name)

\* C16: once metadata_location.json is written it holds, for every pair entry
\* as ingestion writes it, one record under the entry's stored filename, with
\* found=false and a null metadata_file when nothing lies around the source.
C16_OneRecordPerPairEntry ==
    locate_status = "written" =>
      \A i \in PairIndexes :
         AsWrittenByIngestion(i) =>
           /\ pairs[i]["filename"] \in DOMAIN metadata_locations
           /\ (listing[i].files = {} /\ listing[i].dirs = {}) =>
                /\ ~metadata_locations[pairs[i]["filename"]].found
                /\ metadata_locations[pairs[i]["filename"]].metadata_file = None

\* C19: for a pair entry with several sources the sidecar of each of its
\* sources is looked up, which comparing them and flagging a disagreement
\* presupposes: once metadata_location.json is written, every source of such
\* an entry has been handed to the sidecar search.
C19_EverySourceIsSearched ==
    locate_status = "written" =>
      \A i \in PairIndexes :
         (AsWrittenByIngestion(i) /\ Len(pairs[i]["sources"]) > 1)
           => \A k \in 1 .. Len(pairs[i]["sources"]) : pairs[i]["sources"][k] \in searched

(***************************************************************************)
(* Pipeline claim                                                          *)
(***************************************************************************)
HasRun(script) == outcome[script] # "pending"

\* C17: running the scripts in order, no script fails and none loses a
\* record over a file of its predecessors: every script that has run has
\* completed, and it has dropped the record of no pair entry.
C17_EveryStageReadsWhatWasWritten ==
    \A s \in ScriptNames :
       HasRun(s) => outcome[s] = "completed" /\ lost[s] = {}

(***************************************************************************)
(* Classification claim                                                    *)
(***************************************************************************)
Candidates == {image_files[k] : k \in 1 .. Len(image_files)}

Classified == collect_pos = NumTreeFiles + 1

\* C18: once the input tree has been gone through, every file whose
\* lower-cased extension is an image or a video extension is a candidate of
\* the ingestion, and every other file is no candidate and has its extension
\* among those reported as unrecognized.
C18_MediaIngestedOthersReported ==
    Classified =>
      \A f \in TreeFiles :
         IF Lower(suffix[f]) \in get_image_extensions \cup get_video_extensions
           THEN f \in Candidates
           ELSE f \notin Candidates /\ Lower(suffix[f]) \in reported[1]


NoCandidates == collect_pos = NumTreeFiles + 1 /\ Len(image_files) = 0

\* C30: when the input tree holds no candidate image file, the ingestion
\* does not raise, and the mapping it writes is empty with a duplicate count
\* of zero.
C30_NoCandidatesEndsNormally ==
    NoCandidates =>
      /\ ingest_result # None => ingest_result[1] # "raised"
      /\ (ingest_result # None /\ ingest_result[1] = "written") =>
           ingest_result[2] = [entries |-> 0, duplicate_count |-> 0]

(***************************************************************************)
(* Report claim                                                            *)
(***************************************************************************)
InCategory(c, f) == \E k \in 1 .. Len(categories[c]) : categories[c][k] = f

CategoriesHolding(cs, f) == {c \in cs : InCategory(c, f)}

Returned == report_status = "returned"

\* C20: once compare_metadata has returned, every stored record is in exactly
\* one of the four GPS classes and in exactly one of the four datetime
\* classes, the records without an entry in the sidecar-derived metadata
\* included.
C20_EveryRecordInOneClassPerField ==
    Returned =>
      \A f \in StoredFiles :
         /\ Cardinality(CategoriesHolding(GpsCategories, f)) = 1
         /\ Cardinality(CategoriesHolding(DatetimeCategories, f)) = 1

TablePrinted == table # None

RowSum(row) ==
    row["both_match"] + row["media_only"] + row["supplemental_only"] + row["both_none"]

HasSupplementalGps(f) ==
    supplemental_metadata[f] # None /\ supplemental_metadata[f][1].exif_gps # None

HasSupplementalDatetime(f) ==
    supplemental_metadata[f] # None /\ supplemental_metadata[f][1].exif_datetime # None

\* C26: in the classification table of main the four counts of each field add
\* up to the number of records, and the count under "Both None" is the number
\* of records in which the field is absent from the stored copy and from the
\* sidecar: a record whose two values are present and disagree is not in it.
C26_BothNoneCountsOnlyAbsentFields ==
    TablePrinted =>
      /\ RowSum(table[1].gps) = table[1].total_files
      /\ RowSum(table[1].datetime) = table[1].total_files
      /\ table[1].gps["both_none"] =
           Cardinality({f \in StoredFiles :
                          photo_metadata[f].exif_gps = None /\ ~HasSupplementalGps(f)})
      /\ table[1].datetime["both_none"] =
           Cardinality({f \in StoredFiles :
                          photo_metadata[f].exif_datetime = None
                            /\ ~HasSupplementalDatetime(f)})

(***************************************************************************)
(* Ingestion: accounting                                                   *)
(***************************************************************************)
Collected == next_future - 1

\* C21: every candidate file is accounted for exactly once: each future the
\* collector has passed has added one to exactly one of the entries of the
\* mapping, the duplicate count and the logged errors, and once pair.json is
\* written its entries, the duplicate count and the logged errors add up to
\* the number of candidate files.
C21_EveryCandidateAccountedOnce ==
    /\ Len(pair_data) + duplicate_count + error_count = Collected
    /\ Written => Len(pair_json[2]) + duplicate_count + error_count = NumFiles

\* C21 witness: pair.json is written with one entry after one file was copied,
\* one was a duplicate of it and one failed.
C21_Witness ==
    /\ Written
    /\ Len(pair_json[2]) = 1
    /\ duplicate_count = 1
    /\ error_count = 1

(***************************************************************************)
(* Ingestion: a claimant whose copy fails                                  *)
(***************************************************************************)
InStore(name) == \E s \in store : s.name = name

\* C28: once pair.json is written, every file that returned through the
\* duplicate branch (and so was counted as a duplicate) is in the sources of
\* a written entry whose destination file is in the store, and every content
\* that has a file whose own processing did not raise has a stored copy and
\* a written entry.
C28_DuplicatesBelongToAStoredEntry ==
    Written =>
      /\ \A f \in Files : pc[f] = "done_dup" =>
           \E i \in 1 .. Len(pair_json[2]) :
              /\ f \in SourcesOf(i)
              /\ InStore(pair_json[2][i].destination)
      /\ \A f \in Files : pc[f] # "failed" =>
           /\ StoredCopiesOf(content[f]) # {}
           /\ PairEntriesFor(calculate_file_hash(content[f])) # {}

(***************************************************************************)
(* Ingestion: the moment pair.json is written                              *)
(***************************************************************************)
SameEntry(f, g) ==
    \E i \in PairEntriesFor(calculate_file_hash(content[f])) :
       f \in SourcesOf(i) /\ g \in SourcesOf(i)

\* C24: pair.json is written only when every worker has finished and the
\* lock is free, and the sources list written for a copied file holds the
\* source of every duplicate-branch worker of the same content, whenever
\* that worker appended it.
C24_WrittenAfterEveryWorker ==
    Written =>
      /\ \A f \in Files : Terminal(f)
      /\ lock = 0
      /\ \A f, g \in Files :
           (pc[f] = "done_new" /\ pc[g] = "done_dup" /\ content[f] = content[g])
             => SameEntry(f, g)

\* C24 witness: pair.json is written with one entry that lists the copied
\* file and two duplicates of it.
C24_Witness ==
    /\ Written
    /\ pc[1] = "done_new" /\ pc[2] = "done_dup" /\ pc[3] = "done_dup"
    /\ Len(pair_json[2]) = 1
    /\ SourcesOf(1) = {1, 2, 3}

(***************************************************************************)
(* Ingestion: the result and the schedule                                  *)
(***************************************************************************)
\* The file of content c that is submitted first; in the schedule that runs
\* the workers one after the other in submission order it claims the hash.
FirstOfContent(c) ==
    CHOOSE f \in Files : content[f] = c /\ \A g \in Files : content[g] = c => f <= g

StoredFilenames == {s.name : s \in store}

WrittenMapping ==
    {[hash |-> pair_json[2][i].hash, filename |-> pair_json[2][i].filename,
      sources |-> SourcesOf(i)] : i \in 1 .. Len(pair_json[2])}

SubmissionOrderFilenames == {NewFilename(FirstOfContent(content[f])) : f \in Files}

SubmissionOrderMapping ==
    {[hash |-> calculate_file_hash(content[f]),
      filename |-> NewFilename(FirstOfContent(content[f])),
      sources |-> {g \in Files : content[g] = content[f]}] : f \in Files}

NoneFailed == \A f \in Files : pc[f] # "failed"

\* C29: the result does not depend on the schedule. The schedule that runs
\* the workers one after the other in submission order is one of the
\* schedules, so in every run in which no worker raised, the stored filenames
\* and the written mapping (entries and sources taken as sets) are those of
\* that schedule, also when files of one content differ in extension.
C29_ResultIndependentOfSchedule ==
    (Written /\ NoneFailed) =>
      /\ StoredFilenames = SubmissionOrderFilenames
      /\ WrittenMapping = SubmissionOrderMapping

(***************************************************************************)
(* Round-trip claims                                                       *)
(***************************************************************************)
DatetimeWrittenAndRead ==
    to_write.exif_datetime # None /\ reread_datetime[1] = "read"

GpsWrittenAndRead == to_write.exif_gps # None /\ reread_gps[1] = "read"

Sign(x) == IF x < 0 THEN 0 - 1 ELSE IF x > 0 THEN 1 ELSE 0

\* 0.005 arc-second, half of the last digit of f"{sec:.2f}"
HalfCentisecond == UnitsPerCentisecond \div 2

WrittenCoordinates ==
    {<<to_write.exif_gps[1].latitude, reread_gps[2][1].latitude>>,
     <<to_write.exif_gps[1].longitude, reread_gps[2][1].longitude>>}

\* C25 (as the code has it): a coordinate c converted by _decimal_to_dms,
\* written with the reference of its sign and parsed by _parse_gps_coordinate
\* comes back within 0.0001 degree of c and never with the opposite sign; it
\* has the sign of c when c is further than 0.005 arc-second from zero, and is
\* zero when c is closer to zero than that.
C25_GpsRoundTripWithinRounding ==
    GpsWrittenAndRead =>
      /\ reread_gps[2] # None
      /\ \A p \in WrittenCoordinates :
           /\ Sign(p[1]) * Sign(p[2]) >= 0
           /\ Abs(p[1]) > HalfCentisecond => Sign(p[2]) = Sign(p[1])
           /\ Abs(p[1]) < HalfCentisecond => p[2] = 0
           /\ Abs(p[1] - p[2]) <= GpsTolerance

\* C25 witness: the southern latitude 35 deg 40' 12.3585" has been written as
\* 35deg 40' 12.36" S and read back as a negative value.
C25_Witness ==
    /\ GpsWrittenAndRead
    /\ to_write.exif_gps[1].latitude = 0 - SidecarLatitude
    /\ file_tags.gps[1].lat = <<35, 40, 1236>>
    /\ file_tags.gps[1].lat_ref = "S"
    /\ reread_gps[2][1].latitude = 0 - (SidecarLatitude + 15)

\* C25 (as the specification has it): the value read back has the same sign
\* as c, for every c, and is within 0.0001 degree of c.
C25_GpsRoundTripKeepsTheSign ==
    GpsWrittenAndRead =>
      /\ reread_gps[2] # None
      /\ \A p \in WrittenCoordinates :
           /\ Sign(p[2]) = Sign(p[1])
           /\ Abs(p[1] - p[2]) <= GpsTolerance

(***************************************************************************)
(* Writer: per-file conditions                                             *)
(***************************************************************************)
FirstRunEnded == run_status[1] # "pending"

\* C23: in 6_restore_metadata.py a file without sidecar-derived record, with a
\* sidecar that was not found, or whose move or write fails, is dealt with
\* per file: the run over the batch processes every file and ends normally,
\* with an outcome for each file, instead of ending in that file's exception.
C23_PerFileConditionDoesNotEndTheRun ==
    (revision = "r6" /\ FirstRunEnded) =>
      /\ \A r \in Records : log[1][r].ran
      /\ run_status[1] = "completed"

====
